---- MODULE Spec2Model ----
(***************************************************************************)
(* A model of code996_local.py: the statistical pipeline of                *)
(* Code996Analyzer (one repository) and of MultiRepoAnalyzer (a list of    *)
(* repositories, merged), the report generate_html builds from a result,   *)
(* and the run of main over a list of repositories.                        *)
(*                                                                         *)
(* Strings of digits ("09", "17", "3") are sequences of digits             *)
(* (<<0,9>>, <<1,7>>, <<3>>), so that int() and the ordering sorted() uses *)
(* on strings are computed, not assumed.  The Chinese labels of the source *)
(* are written as ASCII tags (the module text is ASCII): "Mon".."Sun" for  *)
(* the weekday labels, "work"/"overtime" and "workday"/"weekend" for the   *)
(* split labels, and "excellent".."terrible" for the description texts.    *)
(***************************************************************************)
EXTENDS Integers, Sequences, FiniteSets, TLC

VARIABLES
    repo_list,          \* MultiRepoAnalyzer.repo_list: the sources, in the listed order
    idx,                \* position of the loop of MultiRepoAnalyzer.analyze (1-based)
    merged_hour_data,   \* {hour label: count}
    merged_week_data,   \* {weekday label: count}
    repo_results,       \* the successful sources' records, in processing order
    failed_repos,       \* the failed sources' records, in processing order
    analyzers,          \* MultiRepoAnalyzer.analyzers
    pc,                 \* "loop", "returned" (analyze returned), "exit" (SystemExit left
                        \* analyze), "raised" (an Exception left main), "done" (main
                        \* wrote the report), "calc" (the pipeline functions alone are
                        \* applied)
    aggregate_result,   \* <<the returned record>>, None before
    calc_in,            \* <<[hour_data, week_data]>>: the buckets a pipeline is applied to
    calc_out,           \* <<what the pipeline returned>>, None before
    is_multi_repo,      \* main: the MultiRepoAnalyzer branch is taken
    main_result,        \* main's result: <<the record analyze returned>>, None before
    html_content,       \* <<what generate_html put in the report>>, None before
    summary,            \* <<what main printed as the result summary>>, None before
    analyzer_instance,  \* main: <<the source of the single analyzer>>, None if none
    cleanups,           \* the sources whose analyzer's cleanup() was called, in order
    exit_status         \* <<the status the program ended with>>, None while it runs

vars == <<repo_list, idx, merged_hour_data, merged_week_data, repo_results,
          failed_repos, analyzers, pc, aggregate_result, calc_in, calc_out,
          is_multi_repo, main_result, html_content, summary, analyzer_instance,
          cleanups, exit_status>>

\* Python's None is the empty sequence, and a value v that may be None is <<v>>
None == <<>>

Some(v) == <<v>>

\* The longest repo_list of the model.
MaxRepos == 3

-----------------------------------------------------------------------------
(* Strings of digits.                                                      *)

\* int(s) of a string of decimal digits
RECURSIVE int(_)
int(s) ==
    IF Len(s) = 0 THEN 0
    ELSE 10 * int(SubSeq(s, 1, Len(s) - 1)) + s[Len(s)]

\* Python's < on two strings (code points in order; a proper prefix is smaller)
RECURSIVE StrLess(_, _)
StrLess(a, b) ==
    IF Len(b) = 0 THEN FALSE
    ELSE IF Len(a) = 0 THEN TRUE
    ELSE IF a[1] # b[1] THEN a[1] < b[1]
    ELSE StrLess(Tail(a), Tail(b))

\* git's --date=format:%H : the hour of day as two digits
FormatH(commit) == <<commit.hour \div 10, commit.hour % 10>>

\* git's --date=format:%u : the ISO weekday as one digit
FormatU(commit) == <<commit.weekday>>

\* sorted(keys) of a set of strings
RECURSIVE sorted(_)
Least(keys) == CHOOSE k \in keys : \A o \in keys \ {k} : StrLess(k, o)

sorted(keys) ==
    IF keys = {} THEN <<>>
    ELSE <<Least(keys)>> \o sorted({k \in keys : k # Least(keys)})

RECURSIVE SumCount(_)
SumCount(items) ==
    IF items = <<>> THEN 0 ELSE Head(items).count + SumCount(Tail(items))

RECURSIVE SumSquares(_)
SumSquares(items) ==
    IF items = <<>> THEN 0
    ELSE Head(items).count * Head(items).count + SumSquares(Tail(items))

-----------------------------------------------------------------------------
(* The repositories the sources name.  A history is a sequence of groups,  *)
(* each standing for n commits made at one local hour and ISO weekday.     *)

C(h, d, n) == [hour |-> h, weekday |-> d, n |-> n]

\* hours 9..17, 10 commits each, Monday..Friday only: 90 commits
HistoryA ==
    [i \in 1..9 |-> C(8 + i, ((i - 1) % 5) + 1, 10)]

\* the same shape over hours 10..15: 60 commits on 6 distinct hours
HistoryB ==
    [i \in 1..6 |-> C(9 + i, ((i - 1) % 5) + 1, 10)]

\* hours 23 and 0 only, 7 commits on each of the 7 weekdays: 98 commits
HistoryN ==
    [i \in 1..14 |-> C(IF i <= 7 THEN 23 ELSE 0, ((i - 1) % 7) + 1, 7)]

\* 40 commits, a fifth of them on Saturday, closing at 20
HistoryS == <<C(10, 1, 12), C(11, 2, 12), C(15, 3, 8), C(20, 6, 8)>>

\* 3 commits, hour 9, on two weekdays (two groups of one hour)
HistoryT == <<C(9, 1, 2), C(9, 2, 1)>>

\* 25 commits: hours 8 and 18, 10 and 15 commits
HistoryH == <<C(18, 4, 15), C(8, 5, 10)>>

Sources == {"A", "B", "N", "S", "T", "H", "E", "F", "U", "R"}

\* type: how the source is listed.  clone: the outcome of git clone (remote
\* sources only).  git: the outcome of git log: "ok", "fail" (a non-zero exit
\* status, CalledProcessError) or "raise" (subprocess.run raises another
\* exception, such as UnicodeDecodeError on undecodable output).
Repo(s) ==
    CASE s = "A" -> [type |-> "local",  clone |-> "ok",   git |-> "ok",    history |-> HistoryA]
      [] s = "B" -> [type |-> "local",  clone |-> "ok",   git |-> "ok",    history |-> HistoryB]
      [] s = "N" -> [type |-> "local",  clone |-> "ok",   git |-> "ok",    history |-> HistoryN]
      [] s = "S" -> [type |-> "remote", clone |-> "ok",   git |-> "ok",    history |-> HistoryS]
      [] s = "T" -> [type |-> "local",  clone |-> "ok",   git |-> "ok",    history |-> HistoryT]
      [] s = "H" -> [type |-> "local",  clone |-> "ok",   git |-> "ok",    history |-> HistoryH]
      [] s = "E" -> [type |-> "local",  clone |-> "ok",   git |-> "ok",    history |-> <<>>]
      [] s = "F" -> [type |-> "local",  clone |-> "ok",   git |-> "fail",  history |-> <<>>]
      [] s = "U" -> [type |-> "local",  clone |-> "ok",   git |-> "raise", history |-> HistoryB]
      [] s = "R" -> [type |-> "remote", clone |-> "fail", git |-> "ok",    history |-> HistoryA]

-----------------------------------------------------------------------------
(* Code996Analyzer: retrieval.                                             *)

\* Outcomes of a call: it returns a value, raises an Exception, or raises
\* SystemExit (sys.exit(1)).
Return(v) == [outcome |-> "return", value |-> v]
Raise == [outcome |-> "raise", value |-> None]
Exit == [outcome |-> "exit", value |-> None]

\* clone_remote_repo: nothing for a local source; a failed clone exits
Clone(repo) ==
    IF repo.type # "remote" THEN Return(None)
    ELSE IF repo.clone = "ok" THEN Return(None)
    ELSE Exit

clone_remote_repo(s) == Clone(Repo(s))

\* The Date: lines git log prints for a history, in groups of n equal lines;
\* date_format is "%H" or "%u"
DateLines(history, date_format) ==
    [i \in DOMAIN history |->
        [date |-> IF date_format = "%H" THEN FormatH(history[i]) ELSE FormatU(history[i]),
         lines |-> history[i].n]]

\* run_git_command(date_format)
GitLog(repo, date_format) ==
    CASE repo.git = "fail" -> Exit
      [] repo.git = "raise" -> Raise
      [] OTHER -> Return(DateLines(repo.history, date_format))

run_git_command(s, date_format) == GitLog(Repo(s), date_format)

\* parse_date_output: counts[date_value] += 1 for every Date: line
RECURSIVE LinesOf(_, _)
LinesOf(output, value) ==
    IF output = <<>> THEN 0
    ELSE (IF Head(output).date = value THEN Head(output).lines ELSE 0)
         + LinesOf(Tail(output), value)

parse_date_output(output) ==
    [value \in {output[i].date : i \in DOMAIN output} |-> LinesOf(output, value)]

\* get_hour_stats: the observed hours only, sorted by label
HourItems(hour_counts, keys) ==
    [i \in DOMAIN keys |-> [time |-> keys[i], count |-> hour_counts[keys[i]]]]

HourList(hour_counts) == HourItems(hour_counts, sorted(DOMAIN hour_counts))

HourStatsOf(output) ==
    IF output.outcome # "return" THEN output
    ELSE Return(HourList(parse_date_output(output.value)))

get_hour_stats(s) == HourStatsOf(run_git_command(s, "%H"))

week_labels == <<"Mon", "Tue", "Wed", "Thu", "Fri", "Sat", "Sun">>

\* WeekList with Sunday's commits left out (the loop stops at day '6')
WeekList_SixDays(week_counts) ==
    [day \in 1..7 |->
        [time |-> week_labels[day],
         count |-> IF day <= 6 /\ <<day>> \in DOMAIN week_counts
                   THEN week_counts[<<day>>] ELSE 0]]

\* get_week_stats: all 7 days, zero-filled, Monday first
WeekList(week_counts) ==
    [day \in 1..7 |->
        [time |-> week_labels[day],
         count |-> IF <<day>> \in DOMAIN week_counts THEN week_counts[<<day>>] ELSE 0]]

WeekStatsOf(output) ==
    IF output.outcome # "return" THEN output
    ELSE Return(WeekList(parse_date_output(output.value)))

get_week_stats(s) == WeekStatsOf(run_git_command(s, "%u"))

-----------------------------------------------------------------------------
(* Code996Analyzer: the pipeline.                                          *)

\* The quotient of a count that is 0.45 times standard_value exactly (then
\* quadratic_value is 400 * count^2 / 81) comes out in double arithmetic as
\* 0.45 or as 0.44999999999999996.  These are the counts up to 260 for which
\* it is the latter.
BelowInDoubles ==
    {3, 6, 12, 15, 24, 30, 39, 48, 51, 57, 60, 78,
     87, 96, 102, 105, 114, 120, 129, 147, 156, 165, 174, 177,
     183, 192, 201, 204, 210, 219, 228, 231, 240, 258}

\* IsWorkHour with a count above the root mean square asked for
IsWorkHour_AboveRms(item, square_sum, length) ==
    item.count * item.count * length > square_sum

\* item['count'] / standard_value >= 0.45 with standard_value =
\* sqrt(quadratic_value) and quadratic_value = sum(count^2) / len(hour_data),
\* squared and cleared of fractions (0.45^2 = 81/400); off the exact tie
\* the doubles order as the reals do
IsWorkHour(item, square_sum, length) ==
    IF 400 * item.count * item.count * length = 81 * square_sum
    THEN item.count \notin BelowInDoubles
    ELSE 400 * item.count * item.count * length > 81 * square_sum

\* [item for item in hour_data if item['count'] / standard_value >= 0.45]
WorkHours(hour_data, square_sum) ==
    SelectSeq(hour_data, LAMBDA item : IsWorkHour(item, square_sum, Len(hour_data)))

\* min(items, key=int(time)) and max(items, key=int(time)): the first such item
MinByTime(items) ==
    items[CHOOSE i \in DOMAIN items :
            /\ \A j \in DOMAIN items : int(items[i].time) <= int(items[j].time)
            /\ \A j \in 1..(i - 1) : int(items[j].time) # int(items[i].time)]

MaxByTime(items) ==
    items[CHOOSE i \in DOMAIN items :
            /\ \A j \in DOMAIN items : int(items[i].time) >= int(items[j].time)
            /\ \A j \in 1..(i - 1) : int(items[j].time) # int(items[i].time)]

\* the hours of a range, lo <= int(time) <= hi
InRange(items, lo, hi) ==
    SelectSeq(items, LAMBDA item : lo <= int(item.time) /\ int(item.time) <= hi)

OpeningTime(opening_data) ==
    IF Len(opening_data) > 0 THEN Some(MinByTime(opening_data)) ELSE None

ClosingTime(closing_data) ==
    IF Len(closing_data) > 0 THEN Some(MaxByTime(closing_data)) ELSE None

\* WorkTimeRange with the closing hour taken among all work hours, not 17..23
WorkTimeRange_AnyClosing(work_hours) ==
    << OpeningTime(InRange(work_hours, 8, 12)), ClosingTime(work_hours) >>

WorkTimeRange(work_hours) ==
    << OpeningTime(InRange(work_hours, 8, 12)), ClosingTime(InRange(work_hours, 17, 23)) >>

\* calculate_work_time_range: <<opening_time, closing_time>>, each an item of
\* hour_data or None
calculate_work_time_range(hour_data) ==
    IF Len(hour_data) = 0 THEN <<None, None>>
    ELSE IF SumCount(hour_data) = 0 THEN <<None, None>>
    ELSE WorkTimeRange(WorkHours(hour_data, SumSquares(hour_data)))

\* item in items (list membership, by equality)
In(item, items) == \E i \in DOMAIN items : items[i] = item

\* [item for item in hour_data if item not in working_time]
NotIn(hour_data, working_time) ==
    SelectSeq(hour_data, LAMBDA item : ~In(item, working_time))

WorkHourPl(working_time_count, working_else_time_count) ==
    << << [time |-> "work", count |-> working_time_count],
          [time |-> "overtime", count |-> working_else_time_count] >>,
       working_time_count, working_else_time_count >>

WorkingSplit(hour_data, working_time) ==
    WorkHourPl(SumCount(working_time), SumCount(NotIn(hour_data, working_time)))

\* calculate_working_time with a window that ends at opening_hour + 8
calculate_working_time_NineHours(hour_data, opening_time) ==
    IF opening_time = None \/ Len(hour_data) = 0
    THEN WorkingSplit(hour_data, InRange(hour_data, 9, 18))
    ELSE WorkingSplit(hour_data,
             InRange(hour_data, int(opening_time[1].time), int(opening_time[1].time) + 8))

\* calculate_working_time: <<work_hour_pl, working_time_count, working_else_time_count>>
calculate_working_time(hour_data, opening_time) ==
    IF opening_time = None \/ Len(hour_data) = 0
    THEN WorkingSplit(hour_data, InRange(hour_data, 9, 18))
    ELSE WorkingSplit(hour_data,
             InRange(hour_data, int(opening_time[1].time), int(opening_time[1].time) + 9))

\* WorkDays with 5 days only above 90 percent
WorkDays_Strict(workday_count, total_count) ==
    IF 100 * workday_count > 90 * total_count THEN 5
    ELSE IF 100 * workday_count >= 79 * total_count THEN 6
    ELSE 7

\* work_days from workday_ratio = (workday_count / total_count) * 100, the
\* comparisons cleared of the division
WorkDays(workday_count, total_count) ==
    IF 100 * workday_count >= 90 * total_count THEN 5
    ELSE IF 100 * workday_count >= 85 * total_count THEN 6
    ELSE IF 100 * workday_count >= 79 * total_count THEN 6
    ELSE IF 100 * workday_count >= 72 * total_count THEN 7
    ELSE 7

WeekType(total_count, workday_count, weekend_count) ==
    IF total_count = 0 THEN <<5, <<>>>>
    ELSE << WorkDays(workday_count, total_count),
            << [time |-> "workday", count |-> workday_count],
               [time |-> "weekend", count |-> weekend_count] >> >>

\* calculate_week_type: <<work_days, work_week_pl>>
calculate_week_type(week_data) ==
    WeekType(SumCount(week_data), SumCount(SubSeq(week_data, 1, 5)),
             SumCount(SubSeq(week_data, 6, 7)))

\* round(p / q) for p >= 0, q > 0: Python rounds a half to the even neighbour
round(p, q) ==
    IF 2 * (p % q) > q THEN p \div q + 1
    ELSE IF 2 * (p % q) < q THEN p \div q
    ELSE IF (p \div q) % 2 = 0 THEN p \div q ELSE p \div q + 1

\* The percentages k for which the double (k / 100) * 100 is above k, so
\* that math.ceil gives k + 1 (0.07 * 100 is 7.000000000000001).
CeilRoundsUp == {7, 14, 28, 55, 56}

\* math.ceil((p / q) * 100) in double arithmetic, for 0 <= p <= q, q > 0
ceil_percent(p, q) ==
    IF (100 * p) % q = 0
    THEN (100 * p) \div q + (IF (100 * p) \div q \in CeilRoundsUp THEN 1 ELSE 0)
    ELSE (100 * p) \div q + 1

\* math.ceil(p / q) for p >= 0, q > 0, p / q not within rounding of an integer
ceil(p, q) == IF p % q = 0 THEN p \div q ELSE p \div q + 1

\* x + (y * n) / (m + n) if (m + n) > 0 else x, rounded
overtime_amend_count(x, y, m, n) ==
    IF m + n > 0 THEN round(x * (m + n) + y * n, m + n) ELSE x

\* The small-sample branch.  average_commit = total_count / len(hour_data)
\* and mock_total_count = average_commit * 9 are fractions, kept as
\* <<numerator, denominator>>; the ratio is
\* ceil((total_count / mock_total_count) * 100) - 100.
average_commit(total_count, length) ==
    IF length > 0 THEN <<total_count, length>> ELSE <<0, 1>>

\* mock_total_count with ninety times the average
mock_total_count_Ninety(average) == <<average[1] * 90, average[2]>>

mock_total_count(average) == <<average[1] * 9, average[2]>>

MockRatio(overtime_ratio, total_count, mock) ==
    IF mock[1] > 0 THEN ceil(100 * total_count * mock[2], mock[1]) - 100
    ELSE overtime_ratio

\* overtime_ratio after the branch "if overtime_ratio == 0 and len(hour_data) < 9"
SmallSample(overtime_ratio, total_count, length) ==
    IF overtime_ratio = 0 /\ length < 9
    THEN MockRatio(overtime_ratio, total_count,
                   mock_total_count(average_commit(total_count, length)))
    ELSE overtime_ratio

SingleSampleThreshold == 50

\* IsStandard with total_count >= 50
IsStandard_AtLeast(index_996, total_count) ==
    index_996 < 200 /\ total_count >= SingleSampleThreshold

\* is_standard = index_996 < 200 and total_count > 50
IsStandard(index_996, total_count) ==
    index_996 < 200 /\ total_count > SingleSampleThreshold

\* Index996 with a negative index clamped to 0
Index996_Clamped(overtime_ratio, total_count) ==
    << IF overtime_ratio < 0 THEN 0 ELSE overtime_ratio * 3,
       IF overtime_ratio < 0 THEN 0 ELSE overtime_ratio,
       IsStandard(overtime_ratio * 3, total_count) >>

Index996(overtime_ratio, total_count) ==
    << overtime_ratio * 3, overtime_ratio, IsStandard(overtime_ratio * 3, total_count) >>

\* calculate_996_index on the counts y (work), x (overtime), m (workday),
\* n (weekend)
IndexOfCounts(y, x, m, n, length) ==
    IF y + x = 0 THEN <<0, 0, FALSE>>
    ELSE Index996(SmallSample(ceil_percent(overtime_amend_count(x, y, m, n), y + x),
                              y + x, length),
                  y + x)

\* calculate_996_index: <<index_996, overtime_ratio, is_standard>>
calculate_996_index(work_hour_pl, work_week_pl, hour_data) ==
    IF Len(work_hour_pl) < 2 \/ Len(work_week_pl) < 2 THEN <<0, 0, FALSE>>
    ELSE IndexOfCounts(work_hour_pl[1].count, work_hour_pl[2].count,
                       work_week_pl[1].count, work_week_pl[2].count, Len(hour_data))

\* The divisors of the small-sample branch: len(hour_data) in average_commit
\* and mock_total_count (its numerator) in the ratio
SmallSampleDivisors(overtime_ratio, total_count, length) ==
    IF overtime_ratio = 0 /\ length < 9
    THEN (IF length > 0 THEN {length} ELSE {})
         \cup (IF mock_total_count(average_commit(total_count, length))[1] > 0
               THEN {mock_total_count(average_commit(total_count, length))[1]}
               ELSE {})
    ELSE {}

IndexOfCountsDivisors(y, x, m, n, length) ==
    IF y + x = 0 THEN {}
    ELSE (IF m + n > 0 THEN {m + n} ELSE {})
         \cup {y + x}
         \cup SmallSampleDivisors(ceil_percent(overtime_amend_count(x, y, m, n), y + x),
                                  y + x, length)

\* the numbers calculate_996_index divides by: m + n, total_count,
\* len(hour_data) and mock_total_count, each where its guard lets the
\* division happen
calculate_996_index_divisors(work_hour_pl, work_week_pl, hour_data) ==
    IF Len(work_hour_pl) < 2 \/ Len(work_week_pl) < 2 THEN {}
    ELSE IndexOfCountsDivisors(work_hour_pl[1].count, work_hour_pl[2].count,
                               work_week_pl[1].count, work_week_pl[2].count,
                               Len(hour_data))

\* calculate_week_type_divisors with no guard of total_count == 0
calculate_week_type_divisors_Unguarded(week_data) == {SumCount(week_data)}

\* the number calculate_week_type divides by: total_count
calculate_week_type_divisors(week_data) ==
    IF SumCount(week_data) = 0 THEN {} ELSE {SumCount(week_data)}

\* the numbers calculate_work_time_range divides by: len(hour_data) and
\* standard_value, the square root of the sum of squares over len(hour_data),
\* which is 0 exactly when the sum of squares is
calculate_work_time_range_divisors(hour_data) ==
    IF Len(hour_data) = 0 THEN {}
    ELSE IF SumCount(hour_data) = 0 THEN {}
    ELSE {Len(hour_data), SumSquares(hour_data)}

\* get_index_description with an index of 90 in the tier above
get_index_description_Below90(index_996) ==
    IF index_996 <= 10 THEN "excellent"
    ELSE IF 10 < index_996 /\ index_996 <= 50 THEN "good"
    ELSE IF 50 < index_996 /\ index_996 < 90 THEN "medium"
    ELSE IF 90 <= index_996 /\ index_996 <= 110 THEN "bad"
    ELSE "terrible"

\* get_index_description
get_index_description(index_996) ==
    IF index_996 <= 10 THEN "excellent"
    ELSE IF 10 < index_996 /\ index_996 <= 50 THEN "good"
    ELSE IF 50 < index_996 /\ index_996 <= 90 THEN "medium"
    ELSE IF 90 < index_996 /\ index_996 <= 110 THEN "bad"
    ELSE "terrible"

\* int(time['time']) if time else None
HourOf(time) == IF time = None THEN None ELSE Some(int(time[1].time))

\* closing_hour % 12 if closing_hour else None
StoredClosingHour(closing_hour) ==
    IF closing_hour = None THEN None
    ELSE IF closing_hour[1] = 0 THEN None
    ELSE Some(closing_hour[1] % 12)

\* the result record of Code996Analyzer.analyze
Result(hour_data, week_data, range, work_hour_pl, week_type, index) ==
    [start_date |-> "2022-01-01",
     end_date |-> "today",
     total_count |-> SumCount(hour_data),
     hour_data |-> hour_data,
     week_data |-> week_data,
     work_hour_pl |-> work_hour_pl,
     work_week_pl |-> week_type[2],
     opening_hour |-> HourOf(range[1]),
     closing_hour |-> StoredClosingHour(HourOf(range[2])),
     work_days |-> week_type[1],
     index_996 |-> index[1],
     overtime_ratio |-> index[2],
     is_standard |-> index[3],
     description |-> get_index_description(index[1])]

Indexed(hour_data, week_data, range, work_hour_pl, week_type) ==
    Result(hour_data, week_data, range, work_hour_pl, week_type,
           calculate_996_index(work_hour_pl, week_type[2], hour_data))

Ranged(hour_data, week_data, range) ==
    Indexed(hour_data, week_data, range,
            calculate_working_time(hour_data, range[1])[1],
            calculate_week_type(week_data))

\* Analyzed with no check of total_count == 0
Analyzed_NoDataReturns(hours, weeks) ==
    IF hours.outcome # "return" THEN hours
    ELSE IF weeks.outcome # "return" THEN weeks
    ELSE Return(Ranged(hours.value, weeks.value, calculate_work_time_range(hours.value)))

\* analyze, from the two retrievals on
Analyzed(hours, weeks) ==
    IF hours.outcome # "return" THEN hours
    ELSE IF weeks.outcome # "return" THEN weeks
    ELSE IF SumCount(hours.value) = 0 THEN Exit
    ELSE Return(Ranged(hours.value, weeks.value, calculate_work_time_range(hours.value)))

Cloned(s, cloned) ==
    IF cloned.outcome # "return" THEN cloned
    ELSE Analyzed(get_hour_stats(s), get_week_stats(s))

\* Code996Analyzer.analyze for source s: the result record, an Exception or
\* SystemExit
Code996Analyzer_analyze(s) == Cloned(s, clone_remote_repo(s))

\* the cleanup() calls made inside analyze for source s: run_git_command
\* calls self.cleanup() before sys.exit(1) when git log fails
CleanupsInAnalyze(s) ==
    IF clone_remote_repo(s).outcome = "return" /\ Repo(s).git = "fail" THEN <<s>>
    ELSE <<>>

-----------------------------------------------------------------------------
(* MultiRepoAnalyzer: its own copies of the pipeline functions.            *)

Multi_WorkHours(hour_data, square_sum) ==
    SelectSeq(hour_data, LAMBDA item : IsWorkHour(item, square_sum, Len(hour_data)))

\* Multi_WorkTimeRange with the opening hour looked for from 9 on
Multi_WorkTimeRange_From9(work_hours) ==
    << OpeningTime(InRange(work_hours, 9, 12)), ClosingTime(InRange(work_hours, 17, 23)) >>

Multi_WorkTimeRange(work_hours) ==
    << OpeningTime(InRange(work_hours, 8, 12)), ClosingTime(InRange(work_hours, 17, 23)) >>

Multi_calculate_work_time_range(hour_data) ==
    IF Len(hour_data) = 0 THEN <<None, None>>
    ELSE IF SumCount(hour_data) = 0 THEN <<None, None>>
    ELSE Multi_WorkTimeRange(Multi_WorkHours(hour_data, SumSquares(hour_data)))

Multi_calculate_working_time(hour_data, opening_time) ==
    IF opening_time = None \/ Len(hour_data) = 0
    THEN WorkingSplit(hour_data, InRange(hour_data, 9, 18))
    ELSE WorkingSplit(hour_data,
             InRange(hour_data, int(opening_time[1].time), int(opening_time[1].time) + 9))

\* Multi_WorkDays with the first threshold at 80 in this copy only
Multi_WorkDays_Diverged(workday_count, total_count) ==
    IF 100 * workday_count >= 80 * total_count THEN 5
    ELSE IF 100 * workday_count >= 79 * total_count THEN 6
    ELSE 7

Multi_WorkDays(workday_count, total_count) ==
    IF 100 * workday_count >= 90 * total_count THEN 5
    ELSE IF 100 * workday_count >= 85 * total_count THEN 6
    ELSE IF 100 * workday_count >= 79 * total_count THEN 6
    ELSE IF 100 * workday_count >= 72 * total_count THEN 7
    ELSE 7

Multi_WeekType(total_count, workday_count, weekend_count) ==
    IF total_count = 0 THEN <<5, <<>>>>
    ELSE << Multi_WorkDays(workday_count, total_count),
            << [time |-> "workday", count |-> workday_count],
               [time |-> "weekend", count |-> weekend_count] >> >>

Multi_calculate_week_type(week_data) ==
    Multi_WeekType(SumCount(week_data), SumCount(SubSeq(week_data, 1, 5)),
                   SumCount(SubSeq(week_data, 6, 7)))

AggregateSampleThreshold == 30

\* is_standard = index_996 < 200 and total_count > 30
Multi_IsStandard(index_996, total_count) ==
    index_996 < 200 /\ total_count > AggregateSampleThreshold

Multi_Index996(overtime_ratio, total_count) ==
    << overtime_ratio * 3, overtime_ratio,
       Multi_IsStandard(overtime_ratio * 3, total_count) >>

Multi_SmallSample(overtime_ratio, total_count, length) ==
    IF overtime_ratio = 0 /\ length < 9
    THEN MockRatio(overtime_ratio, total_count,
                   mock_total_count(average_commit(total_count, length)))
    ELSE overtime_ratio

Multi_IndexOfCounts(y, x, m, n, length) ==
    IF y + x = 0 THEN <<0, 0, FALSE>>
    ELSE Multi_Index996(
             Multi_SmallSample(ceil_percent(overtime_amend_count(x, y, m, n), y + x),
                               y + x, length),
             y + x)

Multi_calculate_996_index(work_hour_pl, work_week_pl, hour_data) ==
    IF Len(work_hour_pl) < 2 \/ Len(work_week_pl) < 2 THEN <<0, 0, FALSE>>
    ELSE Multi_IndexOfCounts(work_hour_pl[1].count, work_hour_pl[2].count,
                             work_week_pl[1].count, work_week_pl[2].count, Len(hour_data))

Multi_get_index_description(index_996) ==
    IF index_996 <= 10 THEN "excellent"
    ELSE IF 10 < index_996 /\ index_996 <= 50 THEN "good"
    ELSE IF 50 < index_996 /\ index_996 <= 90 THEN "medium"
    ELSE IF 90 < index_996 /\ index_996 <= 110 THEN "bad"
    ELSE "terrible"

-----------------------------------------------------------------------------
(* MultiRepoAnalyzer.analyze.                                              *)

\* defaultdict(int)
EmptyDict == [k \in {} |-> 0]

\* AddCount with merged[key] = count
AddCount_Overwrite(merged, key, count) ==
    [k \in DOMAIN merged \cup {key} |-> IF k = key THEN count ELSE merged[k]]

\* merged[key] += count on a defaultdict(int)
AddCount(merged, key, count) ==
    IF key \in DOMAIN merged
    THEN [merged EXCEPT ![key] = @ + count]
    ELSE [k \in DOMAIN merged \cup {key} |-> IF k = key THEN count ELSE merged[k]]

\* for item in items: merged[item['time']] += item['count']
RECURSIVE MergeBucket(_, _)
MergeBucket(merged, items) ==
    IF Len(items) = 0 THEN merged
    ELSE MergeBucket(AddCount(merged, Head(items).time, Head(items).count), Tail(items))

\* The loop's variables as one record.
Acc(hours, weeks, results, failed, made, at) ==
    [merged_hour_data |-> hours, merged_week_data |-> weeks, repo_results |-> results,
     failed_repos |-> failed, analyzers |-> made, pc |-> at]

\* Handle with the accumulators cleared when a source fails
Handle_ResetOnFailure(acc, s, call) ==
    CASE call.outcome = "return" ->
           Acc(MergeBucket(acc.merged_hour_data, call.value.hour_data),
               MergeBucket(acc.merged_week_data, call.value.week_data),
               Append(acc.repo_results,
                      [name |-> s, path |-> s, type |-> Repo(s).type,
                       result |-> call.value]),
               acc.failed_repos, Append(acc.analyzers, s), "loop")
      [] call.outcome = "raise" ->
           Acc(EmptyDict, EmptyDict, acc.repo_results,
               Append(acc.failed_repos, [path |-> s, error |-> "error"]),
               Append(acc.analyzers, s), "loop")
      [] OTHER ->
           Acc(acc.merged_hour_data, acc.merged_week_data, acc.repo_results,
               acc.failed_repos, Append(acc.analyzers, s), "exit")

\* Handle with the hour counts merged and the weekday counts not
Handle_HoursOnly(acc, s, call) ==
    CASE call.outcome = "return" ->
           Acc(MergeBucket(acc.merged_hour_data, call.value.hour_data),
               acc.merged_week_data,
               Append(acc.repo_results,
                      [name |-> s, path |-> s, type |-> Repo(s).type,
                       result |-> call.value]),
               acc.failed_repos, Append(acc.analyzers, s), "loop")
      [] call.outcome = "raise" ->
           Acc(acc.merged_hour_data, acc.merged_week_data, acc.repo_results,
               Append(acc.failed_repos, [path |-> s, error |-> "error"]),
               Append(acc.analyzers, s), "loop")
      [] OTHER ->
           Acc(acc.merged_hour_data, acc.merged_week_data, acc.repo_results,
               acc.failed_repos, Append(acc.analyzers, s), "exit")

\* The rest of an iteration once analyzer.analyze() has ended: a returned
\* result is recorded and merged, an Exception is recorded as a failure, and
\* SystemExit is caught by no handler of the loop.
Handle(acc, s, call) ==
    CASE call.outcome = "return" ->
           Acc(MergeBucket(acc.merged_hour_data, call.value.hour_data),
               MergeBucket(acc.merged_week_data, call.value.week_data),
               Append(acc.repo_results,
                      [name |-> s, path |-> s, type |-> Repo(s).type,
                       result |-> call.value]),
               acc.failed_repos, Append(acc.analyzers, s), "loop")
      [] call.outcome = "raise" ->
           Acc(acc.merged_hour_data, acc.merged_week_data, acc.repo_results,
               Append(acc.failed_repos, [path |-> s, error |-> "error"]),
               Append(acc.analyzers, s), "loop")
      [] OTHER ->
           Acc(acc.merged_hour_data, acc.merged_week_data, acc.repo_results,
               acc.failed_repos, Append(acc.analyzers, s), "exit")

\* LoopBody with a second attempt at a source whose analysis raised
LoopBody_Retry(acc, s) ==
    IF Code996Analyzer_analyze(s).outcome = "raise"
    THEN Handle(Handle(acc, s, Code996Analyzer_analyze(s)), s, Code996Analyzer_analyze(s))
    ELSE Handle(acc, s, Code996Analyzer_analyze(s))

\* One iteration of the loop, for source s
LoopBody(acc, s) == Handle(acc, s, Code996Analyzer_analyze(s))

\* generate_default_name, when no project name is given
generate_default_name(listed) ==
    IF Len(listed) = 1 THEN <<"repo", listed[1]>>
    ELSE <<"multi-project", Len(listed)>>

\* MergedHourList with the hours in descending order
MergedHourList_Descending(merged) ==
    [i \in 1..Cardinality(DOMAIN merged) |->
        HourItems(merged, sorted(DOMAIN merged))[Cardinality(DOMAIN merged) + 1 - i]]

\* hour_data of step 3: the merged hours sorted by label
MergedHourList(merged) == HourItems(merged, sorted(DOMAIN merged))

\* week_data of step 3: the 7 labels in their fixed order
\* MergedWeekList with the week starting on Sunday
MergedWeekList_SundayFirst(merged) ==
    [i \in 1..7 |->
        [time |-> week_labels[((i + 5) % 7) + 1],
         count |-> IF week_labels[((i + 5) % 7) + 1] \in DOMAIN merged
                   THEN merged[week_labels[((i + 5) % 7) + 1]] ELSE 0]]

MergedWeekList(merged) ==
    [i \in 1..7 |->
        [time |-> week_labels[i],
         count |-> IF week_labels[i] \in DOMAIN merged THEN merged[week_labels[i]] ELSE 0]]

AggregateRecord(acc, listed, hour_data, week_data, range, work_hour_pl, week_type, index) ==
    [start_date |-> "2022-01-01",
     end_date |-> "today",
     total_count |-> SumCount(hour_data),
     hour_data |-> hour_data,
     week_data |-> week_data,
     work_hour_pl |-> work_hour_pl,
     work_week_pl |-> week_type[2],
     opening_hour |-> HourOf(range[1]),
     closing_hour |-> StoredClosingHour(HourOf(range[2])),
     work_days |-> week_type[1],
     index_996 |-> index[1],
     overtime_ratio |-> index[2],
     is_standard |-> index[3],
     description |-> Multi_get_index_description(index[1]),
     is_aggregate |-> TRUE,
     project_name |-> generate_default_name(listed),
     repo_count |-> Len(acc.repo_results),
     repo_results |-> acc.repo_results,
     failed_count |-> Len(acc.failed_repos)]

AggregateIndexed(acc, listed, hour_data, week_data, range, work_hour_pl, week_type) ==
    AggregateRecord(acc, listed, hour_data, week_data, range, work_hour_pl, week_type,
                    Multi_calculate_996_index(work_hour_pl, week_type[2], hour_data))

AggregateRanged(acc, listed, hour_data, week_data, range) ==
    AggregateIndexed(acc, listed, hour_data, week_data, range,
                     Multi_calculate_working_time(hour_data, range[1])[1],
                     Multi_calculate_week_type(week_data))

AggregateOf(acc, listed, hour_data, week_data) ==
    AggregateRanged(acc, listed, hour_data, week_data,
                    Multi_calculate_work_time_range(hour_data))

\* The record analyze returns after the loop (steps 3 to 5)
BuildAggregate(acc, listed) ==
    AggregateOf(acc, listed, MergedHourList(acc.merged_hour_data),
                MergedWeekList(acc.merged_week_data))

\* Finish with no check of an empty repo_results
Finish_AlwaysReturns(acc, listed) ==
    IF acc.pc = "exit" THEN Exit
    ELSE Return(BuildAggregate(acc, listed))

\* How analyze ends once the loop has: SystemExit passes through, no
\* successful source is sys.exit(1), else the record is returned
Finish(acc, listed) ==
    IF acc.pc = "exit" THEN Exit
    ELSE IF Len(acc.repo_results) = 0 THEN Exit
    ELSE Return(BuildAggregate(acc, listed))

\* The loop over the sources still to process
RECURSIVE RunLoop(_, _)
RunLoop(acc, rest) ==
    IF Len(rest) = 0 \/ acc.pc # "loop" THEN acc
    ELSE RunLoop(LoopBody(acc, Head(rest)), Tail(rest))

\* MultiRepoAnalyzer(listed).analyze() as a whole
MultiRepoAnalyzer_analyze(listed) ==
    Finish(RunLoop(Acc(EmptyDict, EmptyDict, <<>>, <<>>, <<>>, "loop"), listed), listed)

-----------------------------------------------------------------------------
(* generate_html and the result summary of main.  A string of characters   *)
(* is a sequence of one-character strings.  The columns daily, weekly and  *)
(* overtime of the comparison table hold a number of tenths of an hour     *)
(* (65 for '6.5'); the charts and the style sheet are left out.            *)

digit_chars == <<"0", "1", "2", "3", "4", "5", "6", "7", "8", "9">>

\* str(n) of an integer n
RECURSIVE str(_)
str(n) ==
    IF n < 0 THEN <<"-">> \o str(-n)
    ELSE IF n < 10 THEN <<digit_chars[n + 1]>>
    ELSE str(n \div 10) \o <<digit_chars[(n % 10) + 1]>>

DigitOf(char) == CHOOSE d \in 0..9 : digit_chars[d + 1] = char

RECURSIVE NumberOf(_)
NumberOf(digits) ==
    IF Len(digits) = 0 THEN 0
    ELSE 10 * NumberOf(SubSeq(digits, 1, Len(digits) - 1)) + DigitOf(digits[Len(digits)])

\* float(s) of the string of an integer
float(s) == IF Head(s) = "-" THEN 0 - NumberOf(Tail(s)) ELSE NumberOf(s)

TableRow(type, daily, weekly, overtime, ratio, index) ==
    [type |-> type, daily |-> daily, weekly |-> weekly, overtime |-> overtime,
     ratio |-> ratio, index |-> index]

\* the static rows of table_data
table_data ==
    << TableRow(<<"9", "5", "5">>, 65, 325, -50, <<"-", "1", "1">>, <<"-", "3", "3">>),
       TableRow(<<"9", "6", "5">>, 75, 375, 0, <<"0">>, <<"0">>),
       TableRow(<<"9", "6", "6">>, 75, 450, 75, <<"1", "6">>, <<"4", "8">>),
       TableRow(<<"9", "9", "5">>, 95, 475, 100, <<"2", "1">>, <<"6", "3">>),
       TableRow(<<"9", "9", "6">>, 95, 570, 195, <<"3", "4">>, <<"1", "0", "0">>),
       TableRow(<<"9", "9", "7">>, 95, 665, 290, <<"4", "4">>, <<"1", "3", "0">>),
       TableRow(<<"9", "1", "2", "6">>, 125, 750, 375, <<"5", "0">>, <<"1", "5", "0">>) >>

\* str(v or '?') for a value v that may be None: None and 0 are falsy
or_question(v) ==
    IF v = None THEN <<"?">> ELSE IF v[1] = 0 THEN <<"?">> ELSE str(v[1])

\* v if v else default
or_default(v, default) ==
    IF v = None THEN default ELSE IF v[1] = 0 THEN default ELSE v[1]

\* working_type = f"{opening_hour or '?'}{closing_hour or '?'}{work_days or '?'}"
working_type(record) ==
    or_question(record.opening_hour) \o or_question(record.closing_hour)
        \o or_question(Some(record.work_days))

attendance(opening_hour, closing_hour) ==
    IF closing_hour > opening_hour THEN closing_hour - opening_hour
    ELSE 12 - opening_hour + closing_hour

NotBelowZero(tenths) == IF tenths < 0 THEN 0 ELSE tenths

\* daily_work in tenths: attendance less 1.5 or 2.5 hours, 0 if below 0
daily_work(closing_hour, attended) ==
    NotBelowZero(IF closing_hour <= 19 \/ (closing_hour <= 7 /\ attended <= 10)
                 THEN 10 * attended - 15
                 ELSE 10 * attended - 25)

DailyWorkOf(record) ==
    daily_work(or_default(record.closing_hour, 18),
               attendance(or_default(record.opening_hour, 9),
                          or_default(record.closing_hour, 18)))

\* weekly_work = round(daily_work * work_days, 1), in tenths: daily_work is
\* a multiple of 0.5, the product is exact
weekly_work(daily, work_days) == daily * work_days

WeeklyWorkOf(record) ==
    weekly_work(DailyWorkOf(record), or_default(Some(record.work_days), 5))

\* overtime = round(overtime_ratio * 0.01 * weekly_work, 1), in tenths.  The
\* product is a double: off a tie it rounds to the nearest tenth; at a tie
\* (hundredths digit 5) the double lies on either side of it, and both
\* neighbours are results.
Overtimes(overtime_ratio, weekly) ==
    IF (overtime_ratio * weekly) % 100 > 50
    THEN {(overtime_ratio * weekly) \div 100 + 1}
    ELSE IF (overtime_ratio * weekly) % 100 < 50
    THEN {(overtime_ratio * weekly) \div 100}
    ELSE {(overtime_ratio * weekly) \div 100, (overtime_ratio * weekly) \div 100 + 1}

\* current_project, the row of the analyzed project
current_project(record, overtime) ==
    TableRow(working_type(record), DailyWorkOf(record), WeeklyWorkOf(record), overtime,
             str(record.overtime_ratio), str(record.index_996))

\* rows with row put after the first k of them
InsertRow(rows, row, k) ==
    SubSeq(rows, 1, k) \o <<row>> \o SubSeq(rows, k + 1, Len(rows))

\* sorted_table with the rows left as they are
sorted_table_Unsorted(rows) == rows

\* sorted(table_data, key=lambda x: float(x['index'])): a stable sort
RECURSIVE sorted_table(_)
sorted_table(rows) ==
    IF Len(rows) <= 1 THEN rows
    ELSE InsertRow(sorted_table(SubSeq(rows, 1, Len(rows) - 1)), rows[Len(rows)],
                   Cardinality({i \in 1..(Len(rows) - 1) :
                                    float(rows[i].index) <= float(rows[Len(rows)].index)}))

\* the rows of the comparison table with their class: 'active' when the
\* row's type is working_type
ActiveRows(rows, type) == [i \in DOMAIN rows |-> rows[i].type = type]

\* TopResult with the score shown whatever is_standard says
TopResult_AlwaysScore(record) ==
    [score |-> Some(str(record.index_996)),
     working_type |-> IF record.is_standard THEN Some(working_type(record)) ELSE None,
     overtime_ratio |-> IF record.is_standard THEN Some(str(record.overtime_ratio))
                        ELSE None,
     unsaturated |-> record.is_standard /\ record.index_996 < 0,
     notice |-> IF record.is_standard THEN None
                ELSE IF record.total_count <= 50 THEN Some("too few commits")
                ELSE Some("open source project"),
     explanation |-> record.is_standard,
     total_count |-> record.total_count]

\* the top-result block of the report
TopResult(record) ==
    [score |-> IF record.is_standard THEN Some(str(record.index_996)) ELSE None,
     working_type |-> IF record.is_standard THEN Some(working_type(record)) ELSE None,
     overtime_ratio |-> IF record.is_standard THEN Some(str(record.overtime_ratio))
                        ELSE None,
     unsaturated |-> record.is_standard /\ record.index_996 < 0,
     notice |-> IF record.is_standard THEN None
                ELSE IF record.total_count <= 50 THEN Some("too few commits")
                ELSE Some("open source project"),
     explanation |-> record.is_standard,
     total_count |-> record.total_count]

\* generate_repo_list_html: a row for each repository of repo_results; the
\* share column is count / total_count * 100 before it is rounded
generate_repo_list_html(results, total_count) ==
    [i \in DOMAIN results |->
        [name |-> results[i].name, type |-> results[i].type,
         count |-> results[i].result.total_count,
         share |-> IF total_count > 0
                   THEN <<100 * results[i].result.total_count, total_count>>
                   ELSE <<0, 1>>,
         index |-> results[i].result.index_996]]

IsAggregate(record) == "is_aggregate" \in DOMAIN record /\ record.is_aggregate

\* generate_html: what the report holds, for the overtime value computed
generate_html(record, overtime) ==
    [is_aggregate |-> IsAggregate(record),
     top_result |-> TopResult(record),
     repo_list_html |-> IF IsAggregate(record)
                        THEN Some(generate_repo_list_html(record.repo_results,
                                                          record.total_count))
                        ELSE None,
     table_data |-> sorted_table(Append(table_data, current_project(record, overtime))),
     active |-> ActiveRows(sorted_table(Append(table_data,
                                               current_project(record, overtime))),
                           working_type(record))]

\* the working type main prints: work_days without "or '?'"
PrintedType(record) ==
    or_question(record.opening_hour) \o or_question(record.closing_hour)
        \o str(record.work_days)

\* The result summary main prints.  small is the total_count at or under
\* which the notice is the one about few commits (30 in the multi-repository
\* branch, 50 in the single one); failed_count is printed when above 0.
Summary(record, small, few, other, failed_count) ==
    [index_996 |-> IF record.is_standard THEN Some(str(record.index_996)) ELSE None,
     working_type |-> IF record.is_standard THEN Some(PrintedType(record)) ELSE None,
     overtime_ratio |-> IF record.is_standard THEN Some(str(record.overtime_ratio))
                        ELSE None,
     description |-> IF record.is_standard THEN Some(record.description) ELSE None,
     notice |-> IF record.is_standard THEN None
                ELSE IF record.total_count <= small THEN Some(few)
                ELSE Some(other),
     total_count |-> record.total_count,
     failed_count |-> IF failed_count > 0 THEN Some(failed_count) ELSE None]

\* the summary of the multi-repository branch of main
MultiSummary(record) ==
    Summary(record, 30, "too few commits", "basic information", record.failed_count)

\* the summary of the single-repository branch of main
SingleSummary(record) ==
    Summary(record, 50, "too few commits", "open source project", 0)

-----------------------------------------------------------------------------
(* The run of main over repo_list: the loop of MultiRepoAnalyzer.analyze   *)
(* step by step, or Code996Analyzer.analyze, and then the report.          *)

RepoLists == UNION {[1..n -> Sources] : n \in 1..MaxRepos}

Init ==
    /\ repo_list \in RepoLists
    /\ idx = 1
    /\ merged_hour_data = EmptyDict
    /\ merged_week_data = EmptyDict
    /\ repo_results = <<>>
    /\ failed_repos = <<>>
    /\ analyzers = <<>>
    /\ pc = "loop"
    /\ aggregate_result = None
    /\ calc_in = None
    /\ calc_out = None
    /\ is_multi_repo \in (IF Len(repo_list) > 1 THEN {TRUE} ELSE {TRUE, FALSE})
    /\ main_result = None
    /\ html_content = None
    /\ summary = None
    /\ analyzer_instance = None
    /\ cleanups = <<>>
    /\ exit_status = None

Current ==
    Acc(merged_hour_data, merged_week_data, repo_results, failed_repos, analyzers, pc)

\* for idx, repo_info in enumerate(self.repo_list, 1): one iteration
LoopIteration ==
    /\ is_multi_repo
    /\ pc = "loop"
    /\ idx <= Len(repo_list)
    /\ \E next \in {LoopBody(Current, repo_list[idx])} :
           /\ merged_hour_data' = next.merged_hour_data
           /\ merged_week_data' = next.merged_week_data
           /\ repo_results' = next.repo_results
           /\ failed_repos' = next.failed_repos
           /\ analyzers' = next.analyzers
           /\ pc' = next.pc
    /\ idx' = idx + 1
    /\ cleanups' = cleanups \o CleanupsInAnalyze(repo_list[idx])
    /\ UNCHANGED <<repo_list, aggregate_result, calc_in, calc_out, is_multi_repo,
                   main_result, html_content, summary, analyzer_instance, exit_status>>

\* after the loop: exit when no source succeeded, else return the record
AfterLoop ==
    /\ is_multi_repo
    /\ pc = "loop"
    /\ idx > Len(repo_list)
    /\ \E end \in {Finish(Current, repo_list)} :
           /\ pc' = IF end.outcome = "return" THEN "returned" ELSE "exit"
           /\ aggregate_result' = IF end.outcome = "return" THEN Some(end.value) ELSE None
    /\ UNCHANGED <<repo_list, idx, merged_hour_data, merged_week_data, repo_results,
                   failed_repos, analyzers, calc_in, calc_out, is_multi_repo,
                   main_result, html_content, summary, analyzer_instance, cleanups,
                   exit_status>>

\* main, the multi-repository branch once analyze has returned: the report
\* and the summary
MainMulti ==
    /\ is_multi_repo
    /\ pc = "returned"
    /\ main_result' = aggregate_result
    /\ \E overtime \in Overtimes(aggregate_result[1].overtime_ratio,
                                  WeeklyWorkOf(aggregate_result[1])) :
           html_content' = Some(generate_html(aggregate_result[1], overtime))
    /\ summary' = Some(MultiSummary(aggregate_result[1]))
    /\ pc' = "done"
    /\ UNCHANGED <<repo_list, idx, merged_hour_data, merged_week_data, repo_results,
                   failed_repos, analyzers, aggregate_result, calc_in, calc_out,
                   is_multi_repo, analyzer_instance, cleanups, exit_status>>

\* main, the single-repository branch: analyze, the report and the summary;
\* SystemExit and an Exception of analyze leave main
MainSingle ==
    /\ ~is_multi_repo
    /\ pc = "loop"
    /\ \E call \in {Code996Analyzer_analyze(repo_list[1])} :
           IF call.outcome = "return"
           THEN /\ main_result' = Some(call.value)
                /\ \E overtime \in Overtimes(call.value.overtime_ratio,
                                              WeeklyWorkOf(call.value)) :
                       html_content' = Some(generate_html(call.value, overtime))
                /\ summary' = Some(SingleSummary(call.value))
                /\ pc' = "done"
           ELSE /\ pc' = (IF call.outcome = "exit" THEN "exit" ELSE "raised")
                /\ UNCHANGED <<main_result, html_content, summary>>
    /\ analyzer_instance' = Some(repo_list[1])
    /\ cleanups' = cleanups \o CleanupsInAnalyze(repo_list[1])
    /\ UNCHANGED <<repo_list, idx, merged_hour_data, merged_week_data, repo_results,
                   failed_repos, analyzers, aggregate_result, calc_in, calc_out,
                   is_multi_repo, exit_status>>

\* MultiRepoAnalyzer.cleanup with the analyzers of the recorded results only
multi_cleanup_OfResults(made) == SelectSeq(made, LAMBDA s : Repo(s).git = "ok")

\* MultiRepoAnalyzer.cleanup: the cleanup() calls it makes, one for every
\* analyzer of self.analyzers, in their order
multi_cleanup(made) == made

\* the cleanup() calls of the finally clause of main: that of
\* analyzer_instance if there is one, those of multi_analyzer_instance if
\* there is one
FinallyCleanups(instance, multi, made) ==
    (IF instance # None THEN <<instance[1]>> ELSE <<>>)
        \o (IF multi THEN multi_cleanup(made) ELSE <<>>)

\* main's finally clause and the end of the program, however the try block
\* ended: status 0 after the report, 1 after sys.exit(1) or an uncaught
\* Exception
Finally ==
    /\ pc \in {"done", "exit", "raised"}
    /\ exit_status = None
    /\ cleanups' = cleanups \o FinallyCleanups(analyzer_instance, is_multi_repo, analyzers)
    /\ exit_status' = Some(IF pc = "done" THEN 0 ELSE 1)
    /\ UNCHANGED <<repo_list, idx, merged_hour_data, merged_week_data, repo_results,
                   failed_repos, analyzers, pc, aggregate_result, calc_in, calc_out,
                   is_multi_repo, main_result, html_content, summary,
                   analyzer_instance>>

Next == LoopIteration \/ AfterLoop \/ MainMulti \/ MainSingle \/ Finally

Spec == Init /\ [][Next]_vars

-----------------------------------------------------------------------------
(* The pipeline functions applied to buckets drawn from bounded sets.      *)

\* The most distinct hours of a drawn hour bucket.
MaxDistinct == 10

\* An hour bucket of d consecutive hours from first_hour on, every hour with
\* each commits and the first hour with extra more, as get_hour_stats lists it
DrawnHours(first_hour, d, each, extra) ==
    [i \in 1..d |->
        [time |-> FormatH([hour |-> first_hour + i - 1]),
         count |-> IF i = 1 THEN each + extra ELSE each]]

\* A weekday bucket of total commits, weekend of them on Sunday and the rest
\* on Monday, as get_week_stats lists it
DrawnWeek(total, weekend) ==
    [day \in 1..7 |->
        [time |-> week_labels[day],
         count |-> IF day = 1 THEN total - weekend
                   ELSE IF day = 7 THEN weekend ELSE 0]]

DrawnInput(hour_data, weekend) ==
    [hour_data |-> hour_data, week_data |-> DrawnWeek(SumCount(hour_data), weekend)]

\* An hour bucket of consecutive hours from first_hour on with the counts
\* listed
ListedHours(first_hour, counts) ==
    [i \in DOMAIN counts |->
        [time |-> FormatH([hour |-> first_hour + i - 1]), count |-> counts[i]]]

\* Hour buckets that hold an hour of exactly 0.45 times the root mean square:
\* the hours of 3 commits among 9 hours of mean square 400 / 9, the hour of
\* 9 commits among 5 hours of mean square 400, and the former at the
\* closing side
DrawnTies ==
    { ListedHours(8, <<3, 1, 1, 1, 1, 19, 4, 3, 1>>),
      ListedHours(8, <<9, 42, 11, 5, 3>>),
      ListedHours(12, <<1, 19, 4, 1, 1, 1, 1, 3, 3>>) }

\* Hour buckets that reach past the ten hours from their opening hour: the
\* hours 8..18 and 10..20, 5 commits each
DrawnPastWindow ==
    { ListedHours(8, <<5, 5, 5, 5, 5, 5, 5, 5, 5, 5, 5>>),
      ListedHours(10, <<5, 5, 5, 5, 5, 5, 5, 5, 5, 5, 5>>) }

\* the drawn hour buckets, and the empty one (no commit at all)
DrawnBuckets ==
    { DrawnHours(first_hour, d, each, extra) :
          first_hour \in {0, 8, 9, 13}, d \in 1..MaxDistinct,
          each \in {1, 3, 5, 6}, extra \in {0, 1, 20} }
    \cup DrawnTies
    \cup DrawnPastWindow
    \cup {<<>>}

\* every drawn hour bucket with no, one, half or all of its commits at the weekend
DrawnInputs ==
    UNION { { DrawnInput(hour_data, weekend) :
                  weekend \in {0, 1, SumCount(hour_data) \div 2, SumCount(hour_data)}
                              \cap 0..SumCount(hour_data) } :
            hour_data \in DrawnBuckets }

CalcInit ==
    /\ repo_list = <<>>
    /\ idx = 1
    /\ merged_hour_data = EmptyDict
    /\ merged_week_data = EmptyDict
    /\ repo_results = <<>>
    /\ failed_repos = <<>>
    /\ analyzers = <<>>
    /\ pc = "calc"
    /\ aggregate_result = None
    /\ calc_in \in {Some(input) : input \in DrawnInputs}
    /\ calc_out = None
    /\ is_multi_repo = FALSE
    /\ main_result = None
    /\ html_content = None
    /\ summary = None
    /\ analyzer_instance = None
    /\ cleanups = <<>>
    /\ exit_status = None

\* what a pipeline returned, by = "single" or "multi"
CalcOut(by, range, work_hour_pl, week_type, index, description) ==
    [by |-> by, opening_time |-> range[1], closing_time |-> range[2],
     work_hour_pl |-> work_hour_pl, work_days |-> week_type[1],
     work_week_pl |-> week_type[2], index_996 |-> index[1],
     overtime_ratio |-> index[2], is_standard |-> index[3],
     description |-> description]

SingleIndexed(range, work_hour_pl, week_type, index) ==
    CalcOut("single", range, work_hour_pl, week_type, index,
            get_index_description(index[1]))

SingleRanged(hour_data, range, work_hour_pl, week_type) ==
    SingleIndexed(range, work_hour_pl, week_type,
                  calculate_996_index(work_hour_pl, week_type[2], hour_data))

\* Code996Analyzer's functions in the order analyze calls them
SinglePipeline(hour_data, week_data, range) ==
    SingleRanged(hour_data, range, calculate_working_time(hour_data, range[1])[1],
                 calculate_week_type(week_data))

MultiIndexed(range, work_hour_pl, week_type, index) ==
    CalcOut("multi", range, work_hour_pl, week_type, index,
            Multi_get_index_description(index[1]))

MultiRanged(hour_data, range, work_hour_pl, week_type) ==
    MultiIndexed(range, work_hour_pl, week_type,
                 Multi_calculate_996_index(work_hour_pl, week_type[2], hour_data))

\* MultiRepoAnalyzer's functions in the order analyze calls them
MultiPipeline(hour_data, week_data, range) ==
    MultiRanged(hour_data, range, Multi_calculate_working_time(hour_data, range[1])[1],
                Multi_calculate_week_type(week_data))

ApplySingle ==
    /\ pc = "calc"
    /\ calc_out' = Some(SinglePipeline(calc_in[1].hour_data, calc_in[1].week_data,
                                       calculate_work_time_range(calc_in[1].hour_data)))
    /\ UNCHANGED <<repo_list, idx, merged_hour_data, merged_week_data, repo_results,
                   failed_repos, analyzers, pc, aggregate_result, calc_in,
                   is_multi_repo, main_result, html_content, summary,
                   analyzer_instance, cleanups, exit_status>>

ApplyMulti ==
    /\ pc = "calc"
    /\ calc_out' = Some(MultiPipeline(calc_in[1].hour_data, calc_in[1].week_data,
                                      Multi_calculate_work_time_range(calc_in[1].hour_data)))
    /\ UNCHANGED <<repo_list, idx, merged_hour_data, merged_week_data, repo_results,
                   failed_repos, analyzers, pc, aggregate_result, calc_in,
                   is_multi_repo, main_result, html_content, summary,
                   analyzer_instance, cleanups, exit_status>>

CalcNext == ApplySingle \/ ApplyMulti

CalcSpec == CalcInit /\ [][CalcNext]_vars

-----------------------------------------------------------------------------
(* Properties.                                                             *)

RECURSIVE Commits(_)
Commits(history) ==
    IF Len(history) = 0 THEN 0 ELSE Head(history).n + Commits(Tail(history))

\* git log or git clone ends with a non-zero status
GitOrCloneFails(s) ==
    Repo(s).git = "fail" \/ (Repo(s).type = "remote" /\ Repo(s).clone = "fail")

RetrievalFails(s) == GitOrCloneFails(s) \/ Repo(s).git = "raise"

HasEvents(s) == ~RetrievalFails(s) /\ Commits(Repo(s).history) > 0

HasNoEvents(s) == ~RetrievalFails(s) /\ Commits(Repo(s).history) = 0

Ended == pc \in {"returned", "exit"}

RECURSIVE EventsOf(_)
EventsOf(listed) ==
    IF Len(listed) = 0 THEN 0
    ELSE (IF HasEvents(Head(listed)) THEN Commits(Repo(Head(listed)).history) ELSE 0)
         + EventsOf(Tail(listed))

\* C1: when retrieval (git log or clone) fails for some source of the list and
\* another source succeeds, the run does not abort: every source is still
\* analyzed and the returned record counts the failed sources in failed_count
\* and the succeeded sources' commits in total_count.
C1_RetrievalFailureIsRecorded ==
    ( /\ Ended
      /\ \A i \in DOMAIN repo_list : RetrievalFails(repo_list[i]) \/ HasEvents(repo_list[i])
      /\ \E i \in DOMAIN repo_list : GitOrCloneFails(repo_list[i])
      /\ \E i \in DOMAIN repo_list : HasEvents(repo_list[i]) )
    => /\ pc = "returned"
       /\ Len(analyzers) = Len(repo_list)
       /\ aggregate_result[1].failed_count =
              Cardinality({i \in DOMAIN repo_list : RetrievalFails(repo_list[i])})
       /\ aggregate_result[1].total_count = EventsOf(repo_list)

\* C2: a source with 0 events in a list where another source has events does
\* not abort the run, and is not counted as a failure (failed_count = 0 when
\* no retrieval fails).
C2_EmptySourceDoesNotAbort ==
    ( /\ Ended
      /\ \A i \in DOMAIN repo_list : HasNoEvents(repo_list[i]) \/ HasEvents(repo_list[i])
      /\ \E i \in DOMAIN repo_list : HasNoEvents(repo_list[i])
      /\ \E i \in DOMAIN repo_list : HasEvents(repo_list[i]) )
    => /\ pc = "returned"
       /\ aggregate_result[1].failed_count = 0
       /\ aggregate_result[1].total_count = EventsOf(repo_list)

\* the orders a list can be given in
Orders(listed) ==
    { [i \in DOMAIN listed |-> listed[p[i]]] :
          p \in { q \in [DOMAIN listed -> DOMAIN listed] :
                      \A i, j \in DOMAIN listed : q[i] = q[j] => i = j } }

WithoutSubResults(record) ==
    [field \in DOMAIN record \ {"repo_results"} |-> record[field]]

\* the same entries, each as often, in any order
SameEntries(a, b) ==
    /\ Len(a) = Len(b)
    /\ \A i \in DOMAIN a :
           Cardinality({j \in DOMAIN a : a[j] = a[i]})
               = Cardinality({j \in DOMAIN b : b[j] = a[i]})

\* C3 as stated: the run over any reordering of repo_list ends as this run
\* did, with a record equal in every field, repo_results included.
C3_SameRecordForEveryOrder ==
    Ended =>
        \A order \in Orders(repo_list) :
            LET other == MultiRepoAnalyzer_analyze(order)
            IN  IF pc = "returned"
                THEN other.outcome = "return" /\ other.value = aggregate_result[1]
                ELSE other.outcome = "exit"

\* C3 as amended: the run over any reordering of repo_list ends as this run
\* did (it aborts or it returns); the returned records agree in every field
\* but repo_results, failed_count included, and repo_results holds the same
\* sub-results, listed in the order the sources were processed.
C3_SameRecordUpToSubResultOrder ==
    Ended =>
        \A order \in Orders(repo_list) :
            LET other == MultiRepoAnalyzer_analyze(order)
            IN  IF pc = "returned"
                THEN /\ other.outcome = "return"
                     /\ WithoutSubResults(other.value)
                            = WithoutSubResults(aggregate_result[1])
                     /\ SameEntries(other.value.repo_results,
                                    aggregate_result[1].repo_results)
                     /\ \A i \in DOMAIN other.value.repo_results :
                            \A j \in DOMAIN other.value.repo_results :
                                i < j =>
                                    \E a, b \in DOMAIN order :
                                        /\ a < b
                                        /\ order[a] = other.value.repo_results[i].path
                                        /\ order[b] = other.value.repo_results[j].path
                ELSE other.outcome = "exit"

C3_Witness ==
    /\ pc = "returned"
    /\ Len(repo_results) >= 2
    /\ repo_results[1].path # repo_results[2].path
    /\ Len(failed_repos) >= 1

\* merge(A, B) of two buckets as the loop merges them into an empty dict
Merge(A, B) == MergeBucket(MergeBucket(EmptyDict, A), B)

RECURSIVE MergeAll(_, _, _)
MergeAll(merged, results, field) ==
    IF Len(results) = 0 THEN merged
    ELSE MergeAll(MergeBucket(merged, Head(results).result[field]), Tail(results), field)

\* C4: merging buckets is a commutative and associative key-wise sum, for the
\* hour buckets and the weekday buckets of the successful sources, and the
\* merged hour_data and week_data, and with them every value derived from
\* them, are the same for every processing order of the successful sources.
C4_MergeIsCommutativeAndAssociative ==
    pc = "returned" =>
        /\ \A i, j, k \in DOMAIN repo_results :
               LET A == repo_results[i].result.hour_data
                   B == repo_results[j].result.hour_data
                   D == repo_results[k].result.hour_data
                   U == repo_results[i].result.week_data
                   V == repo_results[j].result.week_data
                   W == repo_results[k].result.week_data
               IN  /\ Merge(A, B) = Merge(B, A)
                   /\ Merge(MergedHourList(Merge(A, B)), D)
                          = Merge(A, MergedHourList(Merge(B, D)))
                   /\ \A key \in DOMAIN Merge(A, B) :
                          Merge(A, B)[key] =
                              SumCount(SelectSeq(A, LAMBDA item : item.time = key))
                              + SumCount(SelectSeq(B, LAMBDA item : item.time = key))
                   /\ Merge(U, V) = Merge(V, U)
                   /\ Merge(MergedWeekList(Merge(U, V)), W)
                          = Merge(U, MergedWeekList(Merge(V, W)))
        /\ \A order \in Orders(repo_results) :
               /\ MergeAll(EmptyDict, order, "hour_data") = merged_hour_data
               /\ MergeAll(EmptyDict, order, "week_data") = merged_week_data
               /\ WithoutSubResults(
                      BuildAggregate(Acc(MergeAll(EmptyDict, order, "hour_data"),
                                         MergeAll(EmptyDict, order, "week_data"),
                                         order, failed_repos, analyzers, pc), repo_list))
                      = WithoutSubResults(aggregate_result[1])

C4_Witness ==
    /\ pc = "returned"
    /\ \E i, j, k \in DOMAIN repo_results :
           /\ repo_results[i].path = "A"
           /\ repo_results[j].path = "S"
           /\ repo_results[k].path = "H"

BucketSumsEqualTotal(result) ==
    /\ SumCount(result.hour_data) = result.total_count
    /\ SumCount(result.week_data) = result.total_count

\* C5: in every result record, of one source and of the aggregate, the hour
\* counts and the weekday counts both sum to total_count, which for a source
\* is the number of its commits and for the aggregate that of the successful
\* sources.
C5_BucketSumsEqualTotal ==
    /\ \A i \in DOMAIN repo_results : BucketSumsEqualTotal(repo_results[i].result)
    /\ pc = "returned" => BucketSumsEqualTotal(aggregate_result[1])
    /\ \A i \in DOMAIN repo_results :
           repo_results[i].result.total_count = Commits(Repo(repo_results[i].path).history)
    /\ pc = "returned" => aggregate_result[1].total_count = EventsOf(repo_list)

C5_Witness ==
    /\ pc = "returned"
    /\ Len(repo_results) >= 2
    /\ aggregate_result[1].week_data[6].count > 0
    /\ aggregate_result[1].week_data[7].count = 0

WindowFieldsInDetectorRange(result) ==
    /\ result.opening_hour # None => result.opening_hour[1] \in 8..12
    /\ result.closing_hour # None => result.closing_hour[1] \in 17..23

\* C6 as stated: in every result record the opening_hour field is in 8..12
\* and the closing_hour field is in 17..23, whenever present.
C6_WindowFieldsInDetectorRange ==
    /\ \A i \in DOMAIN repo_results : WindowFieldsInDetectorRange(repo_results[i].result)
    /\ pc = "returned" => WindowFieldsInDetectorRange(aggregate_result[1])

ClosingFieldIsDetectedModulo12(result, range) ==
    /\ result.opening_hour # None => result.opening_hour[1] \in 8..12
    /\ result.opening_hour = HourOf(range[1])
    /\ (result.closing_hour = None) <=> (range[2] = None)
    /\ range[2] # None =>
           /\ int(range[2][1].time) \in 17..23
           /\ result.closing_hour[1] = int(range[2][1].time) % 12
           /\ result.closing_hour[1] \in 5..11

\* C6 as amended: in every result record the opening_hour field is in 8..12
\* whenever present; the detected closing hour is in 17..23, and the
\* closing_hour field holds it modulo 12, a value in 5..11, whenever present.
C6_ClosingFieldIsDetectedModulo12 ==
    /\ \A i \in DOMAIN repo_results :
           ClosingFieldIsDetectedModulo12(repo_results[i].result,
               calculate_work_time_range(repo_results[i].result.hour_data))
    /\ pc = "returned" =>
           ClosingFieldIsDetectedModulo12(aggregate_result[1],
               Multi_calculate_work_time_range(aggregate_result[1].hour_data))

C6_Witness ==
    /\ pc = "returned"
    /\ aggregate_result[1].closing_hour # None
    /\ aggregate_result[1].opening_hour # None
    /\ \E i \in DOMAIN repo_results : repo_results[i].result.closing_hour = Some(11)

\* C7: a pipeline's is_standard is true exactly when index_996 < 200 and the
\* total count is above the threshold, 50 for Code996Analyzer and 30 for
\* MultiRepoAnalyzer.
C7_ReliableIffBelow200AndAboveThreshold ==
    calc_out # None =>
        (calc_out[1].is_standard <=>
            /\ calc_out[1].index_996 < 200
            /\ SumCount(calc_in[1].hour_data)
                   > (IF calc_out[1].by = "single" THEN 50 ELSE 30))

C7_Witness ==
    /\ calc_out # None
    /\ calc_out[1].by = "multi"
    /\ SumCount(calc_in[1].hour_data) = 31
    /\ calc_out[1].is_standard

\* the ratio calculate_996_index computes before its small-sample branch
FirstRatio(work_hour_pl, work_week_pl) ==
    ceil_percent(overtime_amend_count(work_hour_pl[2].count, work_hour_pl[1].count,
                                      work_week_pl[1].count, work_week_pl[2].count),
                 work_hour_pl[1].count + work_hour_pl[2].count)

\* C8: the small-sample correction is applied exactly when the computed ratio
\* is 0 and there are d < 9 distinct hours; the ratio is then
\* ceil(100 * d / 9) - 100, between -88 and -11, and otherwise the computed
\* ratio; the index is 3 * ratio, negative included.
C8_SmallSampleRatioIsNotClamped ==
    (calc_out # None /\ calc_in[1].hour_data # <<>>) =>
        LET d == Len(calc_in[1].hour_data)
            first == FirstRatio(calc_out[1].work_hour_pl, calc_out[1].work_week_pl)
        IN  /\ calc_out[1].index_996 = 3 * calc_out[1].overtime_ratio
            /\ IF first = 0 /\ d < 9
               THEN /\ calc_out[1].overtime_ratio = ceil(100 * d, 9) - 100
                    /\ calc_out[1].overtime_ratio \in (-88)..(-11)
               ELSE /\ calc_out[1].overtime_ratio = first
                    /\ calc_out[1].overtime_ratio >= 0

C8_Witness ==
    /\ calc_out # None
    /\ Len(calc_in[1].hour_data) = 8
    /\ calc_out[1].overtime_ratio = -11
    /\ calc_out[1].index_996 = -33

\* C9: when exactly one source succeeds, the aggregate record equals that
\* source's own record in hour_data, week_data, total_count, both splits,
\* opening and closing hour, work_days, ratio, index and description.
C9_OneSuccessEqualsItsOwnAnalysis ==
    (pc = "returned" /\ Len(repo_results) = 1) =>
        \A field \in {"hour_data", "week_data", "total_count", "work_hour_pl",
                      "work_week_pl", "opening_hour", "closing_hour", "work_days",
                      "overtime_ratio", "index_996", "description"} :
            aggregate_result[1][field] = repo_results[1].result[field]

C9_Witness ==
    /\ pc = "returned"
    /\ Len(repo_results) = 1
    /\ Len(failed_repos) >= 1
    /\ aggregate_result[1].total_count = 40

RECURSIVE SumAt(_, _, _)
SumAt(results, field, key) ==
    IF Len(results) = 0 THEN 0
    ELSE SumCount(SelectSeq(Head(results).result[field], LAMBDA item : item.time = key))
         + SumAt(Tail(results), field, key)

KeysOf(results, field) ==
    UNION { { results[i].result[field][n].time : n \in DOMAIN results[i].result[field] } :
            i \in DOMAIN results }

\* C10: at every point of the run each merged bucket holds, key by key, the
\* sum of that bucket over exactly the sources recorded in repo_results, the
\* hour bucket and the weekday bucket alike; a failed source adds nothing.
C10_MergedIsSumOverRecordedResults ==
    /\ DOMAIN merged_hour_data = KeysOf(repo_results, "hour_data")
    /\ DOMAIN merged_week_data = KeysOf(repo_results, "week_data")
    /\ \A key \in DOMAIN merged_hour_data :
           merged_hour_data[key] = SumAt(repo_results, "hour_data", key)
    /\ \A key \in DOMAIN merged_week_data :
           merged_week_data[key] = SumAt(repo_results, "week_data", key)
    /\ \A i \in DOMAIN failed_repos :
           \A j \in DOMAIN repo_results : repo_results[j].path # failed_repos[i].path

C10_Witness ==
    /\ pc = "returned"
    /\ Len(failed_repos) >= 1
    /\ Len(repo_results) >= 2
    /\ \E key \in DOMAIN merged_hour_data :
           /\ SumAt(<<repo_results[1]>>, "hour_data", key) > 0
           /\ SumAt(<<repo_results[2]>>, "hour_data", key) > 0

\* an Exception of the retrieval, which the loop records in failed_repos
RecordedFailure(s) == ~GitOrCloneFails(s) /\ Repo(s).git = "raise"

\* C11: when no source of the list succeeds, MultiRepoAnalyzer.analyze ends
\* in a fatal exit and no aggregate record exists; when a source succeeds
\* and every other source fails with a recorded failure, analyze returns an
\* aggregate record, which counts the successes and the failures.
C11_FatalIffNoSourceSucceeds ==
    (is_multi_repo /\ pc # "loop") =>
        /\ (\A i \in DOMAIN repo_list : ~HasEvents(repo_list[i])) =>
               /\ pc = "exit"
               /\ aggregate_result = None
               /\ main_result = None
               /\ html_content = None
        /\ ( /\ \E i \in DOMAIN repo_list : HasEvents(repo_list[i])
             /\ \A i \in DOMAIN repo_list :
                    HasEvents(repo_list[i]) \/ RecordedFailure(repo_list[i]) ) =>
               /\ pc \in {"returned", "done"}
               /\ aggregate_result # None
               /\ aggregate_result[1].repo_count =
                      Cardinality({i \in DOMAIN repo_list : HasEvents(repo_list[i])})
               /\ aggregate_result[1].failed_count =
                      Cardinality({i \in DOMAIN repo_list : RecordedFailure(repo_list[i])})

C11_Witness ==
    /\ is_multi_repo
    /\ pc = "exit"
    /\ Len(repo_list) >= 2
    /\ Len(failed_repos) = Len(repo_list)

\* C12: a single-source run whose source has no events, or whose retrieval
\* fails, ends in an exit or an uncaught Exception: no result record is
\* made, no report is generated and no summary is printed.
C12_SingleRunIsFatalWithoutData ==
    ( /\ ~is_multi_repo
      /\ pc \notin {"loop", "calc"}
      /\ HasNoEvents(repo_list[1]) \/ RetrievalFails(repo_list[1]) )
    => /\ pc \in {"exit", "raised"}
       /\ main_result = None
       /\ html_content = None
       /\ summary = None

C12_Witness ==
    /\ ~is_multi_repo
    /\ pc = "exit"
    /\ repo_list # <<>>
    /\ HasNoEvents(repo_list[1])

\* the commits of a history made on ISO weekday day
RECURSIVE CommitsOn(_, _)
CommitsOn(history, day) ==
    IF Len(history) = 0 THEN 0
    ELSE (IF Head(history).weekday = day THEN Head(history).n ELSE 0)
         + CommitsOn(Tail(history), day)

\* 7 entries, labelled Monday to Sunday in this order
SevenDays(week_data) ==
    /\ Len(week_data) = 7
    /\ \A day \in 1..7 : week_data[day].time = week_labels[day]

\* C13: the weekday bucket has exactly 7 entries in the order Monday to
\* Sunday, a day without commits with count 0: what get_week_stats returns
\* for every source processed (the one without commits included), week_data
\* of every source's record, and week_data of the aggregate record, whose
\* counts are the sums over the recorded sources.
C13_WeekdayBucketHasSevenDays ==
    /\ \A i \in DOMAIN analyzers :
           get_week_stats(analyzers[i]).outcome = "return" =>
               /\ SevenDays(get_week_stats(analyzers[i]).value)
               /\ \A day \in 1..7 :
                      get_week_stats(analyzers[i]).value[day].count
                          = CommitsOn(Repo(analyzers[i]).history, day)
    /\ \A i \in DOMAIN repo_results : SevenDays(repo_results[i].result.week_data)
    /\ aggregate_result # None =>
           /\ SevenDays(aggregate_result[1].week_data)
           /\ \A day \in 1..7 :
                  aggregate_result[1].week_data[day].count
                      = SumAt(repo_results, "week_data", week_labels[day])
    /\ main_result # None => SevenDays(main_result[1].week_data)

C13_Witness ==
    /\ \E i \in DOMAIN analyzers :
           /\ Repo(analyzers[i]).history = <<>>
           /\ get_week_stats(analyzers[i]).outcome = "return"
    /\ \E i \in DOMAIN repo_results :
           /\ repo_results[i].result.week_data[6].count > 0
           /\ repo_results[i].result.week_data[7].count = 0

\* every number the pipeline functions divide by on the drawn buckets
DivisorsOf(hour_data, week_data, work_hour_pl, work_week_pl) ==
    calculate_work_time_range_divisors(hour_data)
        \cup calculate_week_type_divisors(week_data)
        \cup calculate_996_index_divisors(work_hour_pl, work_week_pl, hour_data)

\* C14: on the empty hour bucket with the all-zero weekday bucket the
\* pipeline functions divide by nothing and return no window, the split
\* {work 0, overtime 0}, 5 work days with an empty split, and index 0,
\* ratio 0, not reliable; on every bucket no divisor is 0.
C14_NoDivisionByZero ==
    calc_out # None =>
        /\ 0 \notin DivisorsOf(calc_in[1].hour_data, calc_in[1].week_data,
                                calc_out[1].work_hour_pl, calc_out[1].work_week_pl)
        /\ calc_in[1].hour_data = <<>> =>
               /\ DivisorsOf(calc_in[1].hour_data, calc_in[1].week_data,
                             calc_out[1].work_hour_pl, calc_out[1].work_week_pl) = {}
               /\ calc_out[1].opening_time = None
               /\ calc_out[1].closing_time = None
               /\ calc_out[1].work_hour_pl = WorkHourPl(0, 0)[1]
               /\ calc_out[1].work_days = 5
               /\ calc_out[1].work_week_pl = <<>>
               /\ calc_out[1].index_996 = 0
               /\ calc_out[1].overtime_ratio = 0
               /\ ~calc_out[1].is_standard
        /\ calc_in[1].hour_data # <<>> =>
               {Len(calc_in[1].hour_data), SumSquares(calc_in[1].hour_data),
                SumCount(calc_in[1].week_data),
                calc_out[1].work_hour_pl[1].count + calc_out[1].work_hour_pl[2].count}
                   \subseteq DivisorsOf(calc_in[1].hour_data, calc_in[1].week_data,
                                        calc_out[1].work_hour_pl,
                                        calc_out[1].work_week_pl)

C14_Witness ==
    /\ calc_out # None
    /\ calc_in[1].hour_data = <<>>
    /\ SumCount(calc_in[1].week_data) = 0
    /\ calc_out[1].by = "multi"

\* rows without the k-th
WithoutRow(rows, k) == SubSeq(rows, 1, k - 1) \o SubSeq(rows, k + 1, Len(rows))

\* C15: the comparison table of every report has 8 rows: the 7 static rows,
\* unmodified and in their order, and one row of the analyzed project,
\* which carries its working type, ratio and index; the rows are in
\* non-decreasing order of index.
C15_TableIsStaticRowsPlusOneSorted ==
    html_content # None =>
        /\ Len(html_content[1].table_data) = 8
        /\ \E k \in 1..8 :
               /\ WithoutRow(html_content[1].table_data, k) = table_data
               /\ html_content[1].table_data[k].type = working_type(main_result[1])
               /\ html_content[1].table_data[k].ratio = str(main_result[1].overtime_ratio)
               /\ float(html_content[1].table_data[k].index) = main_result[1].index_996
        /\ \A i \in 1..7 :
               float(html_content[1].table_data[i].index)
                   <= float(html_content[1].table_data[i + 1].index)

C15_Witness ==
    /\ html_content # None
    /\ main_result[1].index_996 = 0
    /\ html_content[1].table_data[2].index = <<"0">>
    /\ html_content[1].table_data[3].index = <<"0">>
    /\ html_content[1].table_data[3].type = working_type(main_result[1])

\* the index, the working type and the overtime ratio are all left out
HeadlineSuppressed(block) ==
    /\ block.working_type = None
    /\ block.overtime_ratio = None
    /\ block.notice # None

\* C16: when is_standard of the result is false, the top-result block of
\* the report and the printed summary hold neither the index, nor the
\* working type, nor the overtime ratio, and hold the notice instead; when
\* it is true they hold all three, with the values of the result; for the
\* record of one source and for the aggregate record.
C16_HeadlineShownIffReliable ==
    (html_content # None /\ summary # None) =>
        IF main_result[1].is_standard
        THEN /\ html_content[1].top_result.score = Some(str(main_result[1].index_996))
             /\ html_content[1].top_result.working_type
                    = Some(working_type(main_result[1]))
             /\ html_content[1].top_result.overtime_ratio
                    = Some(str(main_result[1].overtime_ratio))
             /\ html_content[1].top_result.notice = None
             /\ summary[1].index_996 = Some(str(main_result[1].index_996))
             /\ summary[1].working_type = Some(PrintedType(main_result[1]))
             /\ summary[1].overtime_ratio = Some(str(main_result[1].overtime_ratio))
             /\ summary[1].notice = None
        ELSE /\ html_content[1].top_result.score = None
             /\ HeadlineSuppressed(html_content[1].top_result)
             /\ summary[1].index_996 = None
             /\ HeadlineSuppressed(summary[1])

C16_Witness ==
    /\ html_content # None
    /\ summary # None
    /\ is_multi_repo
    /\ ~main_result[1].is_standard
    /\ main_result[1].total_count > 50
    /\ main_result[1].index_996 >= 200
    /\ summary[1].notice = Some("basic information")

\* the hours of lo..hi whose count is at least 0.45 times the root mean
\* square of the counts, in exact arithmetic
ActiveIn(hour_data, lo, hi) ==
    { int(item.time) : item \in
        { hour_data[i] : i \in { j \in DOMAIN hour_data :
            /\ lo <= int(hour_data[j].time)
            /\ int(hour_data[j].time) <= hi
            /\ 400 * hour_data[j].count * hour_data[j].count * Len(hour_data)
                   >= 81 * SumSquares(hour_data) } } }

Earliest(hours) == CHOOSE h \in hours : \A o \in hours : h <= o

Latest(hours) == CHOOSE h \in hours : \A o \in hours : h >= o

\* C17: calculate_work_time_range, of either class, returns as opening
\* the earliest hour of 8..12 with 400 * count^2 * n >= 81 * (sum of the
\* squared counts), as closing the latest such hour of 17..23, and no
\* opening or closing exactly when the range holds no such hour.
C17_WindowIsEarliestAndLatestActiveHour ==
    (calc_out # None /\ calc_in[1].hour_data # <<>>) =>
        /\ HourOf(calc_out[1].opening_time)
               = IF ActiveIn(calc_in[1].hour_data, 8, 12) = {} THEN None
                 ELSE Some(Earliest(ActiveIn(calc_in[1].hour_data, 8, 12)))
        /\ HourOf(calc_out[1].closing_time)
               = IF ActiveIn(calc_in[1].hour_data, 17, 23) = {} THEN None
                 ELSE Some(Latest(ActiveIn(calc_in[1].hour_data, 17, 23)))

\* the commits of the hours of a set, one hour after the other
RECURSIVE CountOfHours(_, _)
CountOfHours(hour_data, hours) ==
    IF hours = {} THEN 0
    ELSE SumCount(SelectSeq(hour_data, LAMBDA item : int(item.time) = Earliest(hours)))
         + CountOfHours(hour_data, hours \ {Earliest(hours)})

\* the first hour of the core window: the detected opening hour, or 9
CoreFrom(opening_time) ==
    IF opening_time = None THEN 9 ELSE HourOf(opening_time)[1]

\* C18: calculate_working_time, of either class, returns as core the
\* commits of the hours h..h+9 for a detected opening hour h and of the
\* hours 9..18 when none was detected, as overtime the commits of every
\* other hour, and the two add up to the total of the hour bucket.
C18_CoreIsTenHoursFromOpening ==
    calc_out # None =>
        /\ calc_out[1].work_hour_pl[1].count
               = CountOfHours(calc_in[1].hour_data,
                              CoreFrom(calc_out[1].opening_time)
                                  .. (CoreFrom(calc_out[1].opening_time) + 9))
        /\ calc_out[1].work_hour_pl[2].count
               = CountOfHours(calc_in[1].hour_data,
                              (0..23) \ (CoreFrom(calc_out[1].opening_time)
                                            .. (CoreFrom(calc_out[1].opening_time) + 9)))
        /\ calc_out[1].work_hour_pl[1].count + calc_out[1].work_hour_pl[2].count
               = SumCount(calc_in[1].hour_data)

\* an opening hour other than 9 was detected, the hour nine hours later has
\* commits, and so has an hour outside the window
C18_Witness ==
    /\ calc_out # None
    /\ calc_out[1].opening_time # None
    /\ CoreFrom(calc_out[1].opening_time) # 9
    /\ CountOfHours(calc_in[1].hour_data, {CoreFrom(calc_out[1].opening_time) + 9}) > 0
    /\ calc_out[1].work_hour_pl[2].count > 0

\* round(x + y * n / (m + n)) when m + n > 0, and x otherwise
Amended(x, y, m, n) ==
    IF m + n > 0 THEN round(x * (m + n) + y * n, m + n) ELSE x

\* the smallest integer r with r * total >= 100 * amended
SmallestPercent(amended, total) ==
    CHOOSE r \in 0..100 : /\ r * total >= 100 * amended
                          /\ \A o \in 0..(r - 1) : o * total < 100 * amended

\* the ratio of the claim for the splits of a result
RatioOfSplits(work_hour_pl, work_week_pl) ==
    SmallestPercent(Amended(work_hour_pl[2].count, work_hour_pl[1].count,
                            work_week_pl[1].count, work_week_pl[2].count),
                    work_hour_pl[1].count + work_hour_pl[2].count)

\* C19: calculate_996_index, for splits with y + x > 0, returns as ratio
\* (where the small-sample correction does not apply: the ratio is not 0 or
\* the bucket has 9 hours or more) the smallest integer r with
\* r * (x + y) >= 100 * x', x' being the amended overtime count, and as
\* index 3 times the ratio.
C19_RatioIsExactCeiling ==
    (calc_out # None /\ calc_in[1].hour_data # <<>>) =>
        /\ calc_out[1].index_996 = 3 * calc_out[1].overtime_ratio
        /\ (\/ RatioOfSplits(calc_out[1].work_hour_pl, calc_out[1].work_week_pl) # 0
            \/ Len(calc_in[1].hour_data) >= 9)
               => calc_out[1].overtime_ratio
                      = RatioOfSplits(calc_out[1].work_hour_pl, calc_out[1].work_week_pl)

\* the commits of the first five and of the last two days of a weekday bucket
FirstFive(week_data) ==
    week_data[1].count + week_data[2].count + week_data[3].count
        + week_data[4].count + week_data[5].count

LastTwo(week_data) == week_data[6].count + week_data[7].count

\* C20: calculate_week_type, of either class, on a weekday bucket with
\* commits: workday is the sum of the first 5 entries, weekend the sum of the
\* last 2, the two add up to the total, and work_days is 5 when
\* 100 * workday >= 90 * total, 6 when 79 * total <= 100 * workday <
\* 90 * total, 7 when 100 * workday < 79 * total, and nothing else.
C20_WorkDaysByWorkdayShare ==
    (calc_out # None /\ SumCount(calc_in[1].week_data) > 0) =>
        /\ calc_out[1].work_week_pl[1].count = FirstFive(calc_in[1].week_data)
        /\ calc_out[1].work_week_pl[2].count = LastTwo(calc_in[1].week_data)
        /\ FirstFive(calc_in[1].week_data) + LastTwo(calc_in[1].week_data)
               = SumCount(calc_in[1].week_data)
        /\ calc_out[1].work_days \in {5, 6, 7}
        /\ calc_out[1].work_days = 5
               <=> 100 * FirstFive(calc_in[1].week_data)
                       >= 90 * SumCount(calc_in[1].week_data)
        /\ calc_out[1].work_days = 7
               <=> 100 * FirstFive(calc_in[1].week_data)
                       < 79 * SumCount(calc_in[1].week_data)

\* a tenth of the commits exactly is at the weekend: still 5 days
C20_Witness ==
    /\ calc_out # None
    /\ SumCount(calc_in[1].week_data) > 0
    /\ 10 * LastTwo(calc_in[1].week_data) = SumCount(calc_in[1].week_data)
    /\ calc_out[1].work_days = 5

\* the five tiers, best first
Tiers == <<"excellent", "good", "medium", "bad", "terrible">>

\* the index lies in the range of the k-th tier
InTier(k, index) ==
    CASE k = 1 -> index <= 10
      [] k = 2 -> 10 < index /\ index <= 50
      [] k = 3 -> 50 < index /\ index <= 90
      [] k = 4 -> 90 < index /\ index <= 110
      [] k = 5 -> index > 110

\* C21: the description of a result is the text of the tier whose range
\* holds its index (up to 10, 10 to 50, 50 to 90, 90 to 110, above 110, the
\* upper ends included), of that tier only, and the lookups of the two
\* classes give the same text for the index.
C21_DescriptionIsTierOfIndex ==
    calc_out # None =>
        /\ \A k \in 1..5 :
               calc_out[1].description = Tiers[k] <=> InTier(k, calc_out[1].index_996)
        /\ get_index_description(calc_out[1].index_996)
               = Multi_get_index_description(calc_out[1].index_996)

\* an index at the upper end of a tier
C21_Witness ==
    /\ calc_out # None
    /\ calc_out[1].by = "single"
    /\ calc_out[1].index_996 = 90
    /\ calc_out[1].description = "medium"

\* the window calculate_work_time_range detected for the record of a report
DetectedWindow(record) ==
    IF IsAggregate(record) THEN Multi_calculate_work_time_range(record.hour_data)
    ELSE calculate_work_time_range(record.hour_data)

\* the closing hour detected, on the 24-hour clock, 18 when none was
DetectedClosing(record) ==
    IF DetectedWindow(record)[2] = None THEN 18
    ELSE HourOf(DetectedWindow(record)[2])[1]

\* attendance less 1.5 hours for a closing hour up to 19 and less 2.5 hours
\* for a later one, not below 0, in tenths
DailyWorkByClosing(closing, attended) ==
    NotBelowZero(10 * attended - (IF closing <= 19 THEN 15 ELSE 25))

\* the rows of the table that can be the row of the analyzed project
ProjectRows(report) ==
    { k \in 1..Len(report.table_data) : WithoutRow(report.table_data, k) = table_data }

\* C22: the row of the analyzed project holds as daily work the attendance
\* (closing - opening, or 12 - opening + closing when closing <= opening)
\* less 1.5 hours when the closing hour detected is at or before 19 and less
\* 2.5 hours when it is later (20..23), not below 0, and as weekly work the
\* daily work times work_days.
C22_LateClosingGetsExtraBreak ==
    html_content # None =>
        \E k \in ProjectRows(html_content[1]) :
            /\ html_content[1].table_data[k].daily
                   = DailyWorkByClosing(
                         DetectedClosing(main_result[1]),
                         attendance(or_default(main_result[1].opening_hour, 9),
                                    or_default(main_result[1].closing_hour, 18)))
            /\ html_content[1].table_data[k].weekly
                   = html_content[1].table_data[k].daily * main_result[1].work_days

\* what the two pipelines return is the same but for is_standard, which
\* differs only for a total of 31..50
SamePipelines(single, multi, total_count) ==
    /\ single.opening_time = multi.opening_time
    /\ single.closing_time = multi.closing_time
    /\ single.work_hour_pl = multi.work_hour_pl
    /\ single.work_days = multi.work_days
    /\ single.work_week_pl = multi.work_week_pl
    /\ single.index_996 = multi.index_996
    /\ single.overtime_ratio = multi.overtime_ratio
    /\ single.description = multi.description
    /\ single.is_standard # multi.is_standard => total_count \in 31..50

\* C23: on every hour bucket and weekday bucket the functions of
\* Code996Analyzer and those of MultiRepoAnalyzer return the same window,
\* splits, work_days, index, ratio and description; is_standard can differ,
\* and only when the total is 31..50.
C23_PipelinesAgree ==
    calc_out # None =>
        /\ calc_out[1]
               = IF calc_out[1].by = "single"
                 THEN SinglePipeline(calc_in[1].hour_data, calc_in[1].week_data,
                                     calculate_work_time_range(calc_in[1].hour_data))
                 ELSE MultiPipeline(calc_in[1].hour_data, calc_in[1].week_data,
                                    Multi_calculate_work_time_range(calc_in[1].hour_data))
        /\ SamePipelines(
               SinglePipeline(calc_in[1].hour_data, calc_in[1].week_data,
                              calculate_work_time_range(calc_in[1].hour_data)),
               MultiPipeline(calc_in[1].hour_data, calc_in[1].week_data,
                             Multi_calculate_work_time_range(calc_in[1].hour_data)),
               SumCount(calc_in[1].hour_data))

\* the aggregate pipeline has run on a bucket of 31..50 commits for which
\* the single pipeline answers is_standard differently
C23_Witness ==
    /\ calc_out # None
    /\ calc_out[1].by = "multi"
    /\ calc_out[1].is_standard
    /\ calc_out[1].opening_time # None
    /\ ~SinglePipeline(calc_in[1].hour_data, calc_in[1].week_data,
                       calculate_work_time_range(calc_in[1].hour_data)).is_standard

\* the sources of a list, in their order, whose analysis raised an Exception
RaisedOf(listed) == SelectSeq(listed, LAMBDA s : RecordedFailure(s))

\* the sources of a list, in their order, whose analysis returned a result
ReturnedOf(listed) == SelectSeq(listed, LAMBDA s : HasEvents(s))

\* C24: when MultiRepoAnalyzer.analyze has returned a record, an analyzer
\* was made for every source of the list, once and in the order of the
\* list; the sources of the success list are those whose analysis returned
\* and the sources of the failure list those whose analysis raised, every
\* source in one list; repo_count + failed_count is the number of sources
\* listed, repo_count is at least 1 and failed_count is the number of
\* sources whose analysis raised.
C24_EverySourceInOneList ==
    aggregate_result # None =>
        /\ analyzers = repo_list
        /\ [i \in DOMAIN repo_results |-> repo_results[i].path] = ReturnedOf(repo_list)
        /\ [i \in DOMAIN failed_repos |-> failed_repos[i].path] = RaisedOf(repo_list)
        /\ aggregate_result[1].repo_results = repo_results
        /\ aggregate_result[1].repo_count = Len(repo_results)
        /\ aggregate_result[1].failed_count = Len(failed_repos)
        /\ aggregate_result[1].repo_count + aggregate_result[1].failed_count
               = Len(repo_list)
        /\ aggregate_result[1].repo_count >= 1
        /\ aggregate_result[1].failed_count = Len(RaisedOf(repo_list))

\* a record was returned for a list with two successes and a failure between
C24_Witness ==
    /\ aggregate_result # None
    /\ Len(repo_list) = 3
    /\ RecordedFailure(repo_list[2])
    /\ aggregate_result[1].repo_count = 2
    /\ aggregate_result[1].failed_count = 1

\* the amended overtime count of the splits of a result
AmendedOf(work_hour_pl, work_week_pl) ==
    overtime_amend_count(work_hour_pl[2].count, work_hour_pl[1].count,
                         work_week_pl[1].count, work_week_pl[2].count)

\* C25: for splits with y + x > 0, calculate_996_index, of either class,
\* amends the overtime count to a value from x to x + y, returns a ratio
\* from -88 to 100 and an index that is 3 times it, a multiple of 3 of at
\* most 300, and returns a negative ratio only when the amended count is 0
\* and the hour bucket has fewer than 9 hours.
C25_RatioAndIndexBounds ==
    (calc_out # None /\ calc_in[1].hour_data # <<>>) =>
        /\ calc_out[1].work_hour_pl[2].count
               <= AmendedOf(calc_out[1].work_hour_pl, calc_out[1].work_week_pl)
        /\ AmendedOf(calc_out[1].work_hour_pl, calc_out[1].work_week_pl)
               <= calc_out[1].work_hour_pl[1].count + calc_out[1].work_hour_pl[2].count
        /\ calc_out[1].overtime_ratio \in -88..100
        /\ calc_out[1].index_996 % 3 = 0
        /\ calc_out[1].index_996 <= 300
        /\ calc_out[1].overtime_ratio < 0 =>
               /\ AmendedOf(calc_out[1].work_hour_pl, calc_out[1].work_week_pl) = 0
               /\ Len(calc_in[1].hour_data) < 9

\* the lowest ratio: one hour, no overtime
C25_Witness ==
    /\ calc_out # None
    /\ Len(calc_in[1].hour_data) = 1
    /\ calc_out[1].overtime_ratio = -88
    /\ calc_out[1].index_996 = -264

\* the opening hour detected, 9 when none was
DetectedOpening(record) ==
    IF DetectedWindow(record)[1] = None THEN 9
    ELSE HourOf(DetectedWindow(record)[1])[1]

\* C26: for a result with a detected opening hour (8..12) and a detected
\* closing hour (17..23), the attendance generate_html computes from the
\* opening_hour and closing_hour fields is the closing hour less the
\* opening hour, a value from 5 to 15.
C26_AttendanceIsDetectedGap ==
    ( /\ html_content # None
      /\ DetectedWindow(main_result[1])[1] # None
      /\ DetectedWindow(main_result[1])[2] # None )
    => /\ attendance(or_default(main_result[1].opening_hour, 9),
                     or_default(main_result[1].closing_hour, 18))
              = DetectedClosing(main_result[1]) - DetectedOpening(main_result[1])
       /\ attendance(or_default(main_result[1].opening_hour, 9),
                     or_default(main_result[1].closing_hour, 18)) \in 5..15

\* a record with commits, whose hour bucket lists distinct hours in
\* ascending order, each with a commit at least
WellFormed(record) ==
    /\ record.total_count >= 1
    /\ record.total_count = SumCount(record.hour_data)
    /\ Len(record.hour_data) >= 1
    /\ \A i \in DOMAIN record.hour_data : record.hour_data[i].count >= 1
    /\ \A i, j \in DOMAIN record.hour_data :
           i < j => int(record.hour_data[i].time) < int(record.hour_data[j].time)

\* none of the guards against an empty bucket or a total of zero applies
NoZeroGuard(record) ==
    /\ Len(record.hour_data) # 0
    /\ SumCount(record.hour_data) # 0
    /\ SumCount(record.week_data) # 0
    /\ Len(record.work_hour_pl) = 2
    /\ Len(record.work_week_pl) = 2
    /\ record.work_hour_pl[1].count + record.work_hour_pl[2].count # 0

MaxCountIn(hour_data, lo, hi) ==
    { i \in DOMAIN hour_data :
        /\ lo <= int(hour_data[i].time)
        /\ int(hour_data[i].time) <= hi
        /\ \A j \in DOMAIN hour_data : hour_data[j].count <= hour_data[i].count }

\* C28: in calculate_work_time_range, of either class, on a hour bucket
\* with commits, every hour of the highest count is a work hour, so the
\* work hours are not empty; an opening hour is returned whenever such an
\* hour lies in 8..12 and a closing hour whenever one lies in 17..23.
C28_BusiestHourIsActive ==
    (calc_out # None /\ calc_in[1].hour_data # <<>>) =>
        /\ \A i \in MaxCountIn(calc_in[1].hour_data, 0, 23) :
               IsWorkHour(calc_in[1].hour_data[i], SumSquares(calc_in[1].hour_data),
                          Len(calc_in[1].hour_data))
        /\ WorkHours(calc_in[1].hour_data, SumSquares(calc_in[1].hour_data)) # <<>>
        /\ MaxCountIn(calc_in[1].hour_data, 8, 12) # {}
               => calc_out[1].opening_time # None
        /\ MaxCountIn(calc_in[1].hour_data, 17, 23) # {}
               => calc_out[1].closing_time # None

\* the busiest hour is the only work hour, and it is the opening hour
C28_Witness ==
    /\ calc_out # None
    /\ calc_in[1].hour_data # <<>>
    /\ MaxCountIn(calc_in[1].hour_data, 8, 12) # {}
    /\ Len(calc_in[1].hour_data) > 1
    /\ Len(WorkHours(calc_in[1].hour_data, SumSquares(calc_in[1].hour_data))) = 1
    /\ calc_out[1].opening_time # None

\* the number of cleanup() calls made on the analyzers of source s
CleanupCalls(s) == Cardinality({i \in DOMAIN cleanups : cleanups[i] = s})

\* C29: when the program has ended, with a report, through sys.exit
\* inside analyze or through an uncaught Exception, cleanup() was called
\* for the single analyzer and for every analyzer MultiRepoAnalyzer
\* registered, those of the failed sources included: at least one call for
\* every analyzer made for a source.
C29_EveryAnalyzerIsCleanedUp ==
    exit_status # None =>
        /\ analyzer_instance # None => CleanupCalls(analyzer_instance[1]) >= 1
        /\ \A s \in Sources :
               CleanupCalls(s) >= Cardinality({i \in DOMAIN analyzers : analyzers[i] = s})
        /\ ~is_multi_repo => analyzer_instance # None
        /\ is_multi_repo => Len(analyzers) >= 1

\* the run ended through sys.exit in the second source, after a source
\* whose analysis raised
C29_Witness ==
    /\ exit_status = Some(1)
    /\ is_multi_repo
    /\ pc = "exit"
    /\ Len(analyzers) = 2
    /\ Len(failed_repos) = 1
    /\ Len(repo_list) = 3
    /\ Len(cleanups) >= 2

\* the rows of the table of a report that carry the class 'active'
Highlighted(report) == { i \in DOMAIN report.active : report.active[i] }

\* C30: in the comparison table of every report one row is highlighted,
\* and it is the row of the analyzed project, also when the working type
\* of the project is the name of a static row.
C30_OnlyProjectRowIsHighlighted ==
    html_content # None =>
        /\ Cardinality(Highlighted(html_content[1])) = 1
        /\ \E k \in ProjectRows(html_content[1]) : Highlighted(html_content[1]) = {k}

====
